---- MODULE Spec2Model ----
(***************************************************************************)
(* cellSplitter: the seeding/dilution calculator of src/app.py and the     *)
(* numeric helpers around it.                                              *)
(*                                                                         *)
(* Python's float is IEEE-754 binary64.  The calculator's results are      *)
(* decided by its rounding (500000.0 * 1e6 is 5e11, (3 * 0.1) / 3 is not   *)
(* 0.1), so floats are modelled bit-exactly: a float is a record           *)
(*   [k |-> "fin" | "inf" | "nan", s |-> sign, m |-> mantissa, e |-> exp]  *)
(* of value (-1)^s * m * 2^e, with m a natural number of at most 53 bits.  *)
(* TLC's integers are 32 bits wide, so a mantissa is a little-endian       *)
(* sequence of 15-bit limbs.                                               *)
(***************************************************************************)
EXTENDS Integers, Sequences, FiniteSets, TLC

\* ------------------------------------------------------------------------
\* Natural numbers of any size: little-endian limb sequences, no high zero
\* limb, <<>> is zero.
\* ------------------------------------------------------------------------

Base == 2^15

Max(x, y) == IF x >= y THEN x ELSE y

Min(x, y) == IF x <= y THEN x ELSE y

RestOf(a) == IF a = <<>> THEN <<>> ELSE Tail(a)

FirstOf(a) == IF a = <<>> THEN 0 ELSE Head(a)

RECURSIVE BNorm(_)
BNorm(a) ==
    IF a = <<>> THEN <<>>
    ELSE IF a[Len(a)] = 0 THEN BNorm(SubSeq(a, 1, Len(a) - 1))
    ELSE a

RECURSIVE BFromInt(_)
BFromInt(n) == IF n = 0 THEN <<>> ELSE <<n % Base>> \o BFromInt(n \div Base)

RECURSIVE BAddC(_, _, _)
BAddC(a, b, c) ==
    IF a = <<>> /\ b = <<>> THEN (IF c = 0 THEN <<>> ELSE <<c>>)
    ELSE LET x == FirstOf(a) + FirstOf(b) + c
         IN  <<x % Base>> \o BAddC(RestOf(a), RestOf(b), x \div Base)

BAdd(a, b) == BAddC(a, b, 0)

\* a - b - c for a >= b + c, before normalisation
RECURSIVE BSubC(_, _, _)
BSubC(a, b, c) ==
    IF a = <<>> THEN <<>>
    ELSE LET x == Head(a) - FirstOf(b) - c
         IN  IF x < 0 THEN <<x + Base>> \o BSubC(Tail(a), RestOf(b), 1)
             ELSE <<x>> \o BSubC(Tail(a), RestOf(b), 0)

BSub(a, b) == BNorm(BSubC(a, b, 0))

RECURSIVE BCmpAt(_, _, _)
BCmpAt(a, b, i) ==
    IF i = 0 THEN 0
    ELSE IF a[i] # b[i] THEN (IF a[i] < b[i] THEN -1 ELSE 1)
    ELSE BCmpAt(a, b, i - 1)

\* -1, 0 or 1 as a < b, a = b, a > b
BCmp(a, b) ==
    IF Len(a) # Len(b) THEN (IF Len(a) < Len(b) THEN -1 ELSE 1)
    ELSE BCmpAt(a, b, Len(a))

\* a * k + c for 0 < k <= Base, 0 <= c < Base
RECURSIVE BMulSmallC(_, _, _)
BMulSmallC(a, k, c) ==
    IF a = <<>> THEN (IF c = 0 THEN <<>> ELSE <<c>>)
    ELSE LET x == Head(a) * k + c
         IN  <<x % Base>> \o BMulSmallC(Tail(a), k, x \div Base)

BMulSmall(a, k) == IF k = 0 THEN <<>> ELSE BMulSmallC(a, k, 0)

BShiftLimbs(a, n) == IF a = <<>> THEN <<>> ELSE [i \in 1..n |-> 0] \o a

RECURSIVE BMul(_, _)
BMul(a, b) ==
    IF a = <<>> \/ b = <<>> THEN <<>>
    ELSE IF Len(a) < Len(b) THEN BMul(b, a)
    ELSE BAdd(BMulSmall(a, Head(b)), BShiftLimbs(BMul(a, Tail(b)), 1))

\* <<a \div k, a % k>> for 0 < k <= Base, the quotient before normalisation
RECURSIVE BDivSmallR(_, _)
BDivSmallR(a, k) ==
    IF a = <<>> THEN << <<>>, 0 >>
    ELSE LET hi == BDivSmallR(Tail(a), k)
         IN  IF hi[2] = 0 /\ Head(a) < k THEN << <<0>> \o hi[1], Head(a) >>
             ELSE LET x == hi[2] * Base + Head(a)
                  IN  << <<x \div k>> \o hi[1], x % k >>

BDivSmall(a, k) == LET qr == BDivSmallR(a, k) IN <<BNorm(qr[1]), qr[2]>>

Limb(a, i) == IF i >= 1 /\ i <= Len(a) THEN a[i] ELSE 0

\* a * 2^n
BShl(a, n) ==
    LET s == n % 15
        p == 2^s
        w == 2^(15 - s)
    IN  BShiftLimbs(
            BNorm([i \in 1..(Len(a) + 1) |->
                     (Limb(a, i) % w) * p + Limb(a, i - 1) \div w]),
            n \div 15)

\* a \div 2^n
BShr(a, n) ==
    LET q == n \div 15
        s == n % 15
        p == 2^s
        w == 2^(15 - s)
    IN  IF q >= Len(a) THEN <<>>
        ELSE BNorm([i \in 1..(Len(a) - q) |->
                      Limb(a, q + i) \div p + (Limb(a, q + i + 1) % p) * w])

\* bit i of a (bit 0 is the lowest)
BBit(a, i) ==
    LET q == i \div 15
    IN  IF q >= Len(a) THEN 0 ELSE (a[q + 1] \div 2^(i % 15)) % 2

\* whether any of the n low bits of a is set
BLowNonzero(a, n) ==
    LET q == n \div 15
    IN  \/ \E i \in 1..Min(q, Len(a)) : a[i] # 0
        \/ q < Len(a) /\ a[q + 1] % 2^(n % 15) # 0

RECURSIVE IntLen(_)
IntLen(x) == IF x = 0 THEN 0 ELSE 1 + IntLen(x \div 2)

\* the number of bits of a
BLen(a) == IF a = <<>> THEN 0 ELSE 15 * (Len(a) - 1) + IntLen(a[Len(a)])

\* the largest q <= q0 with b * q <= r
RECURSIVE BFix(_, _, _)
BFix(r, b, q0) ==
    IF BCmp(BMulSmall(b, q0), r) <= 0 THEN q0 ELSE BFix(r, b, q0 - 1)

\* r \div b for r < b * Base and b with its top bit of the top limb set:
\* the two top limbs of r over the top limb of b overshoot by at most 2
BDigit(r, b) ==
    LET n  == Len(b)
        rt == (IF Len(r) > n THEN r[n + 1] * Base ELSE 0)
              + (IF Len(r) >= n THEN r[n] ELSE 0)
    IN  BFix(r, b, Min(rt \div b[n], Base - 1))

\* long division by b, one limb of a at a time from the top:
\* <<quotient before normalisation, remainder>>
RECURSIVE BDivModR(_, _)
BDivModR(a, b) ==
    IF a = <<>> THEN << <<>>, <<>> >>
    ELSE LET hi == BDivModR(Tail(a), b)
         IN  IF hi[2] = <<>> /\ Head(a) = 0 THEN << <<0>> \o hi[1], <<>> >>
             ELSE LET r == <<Head(a)>> \o hi[2]
                      q == BDigit(r, b)
                  IN  << <<q>> \o hi[1], BSub(r, BMulSmall(b, q)) >>

\* <<a \div b, a % b>> for b > 0, both shifted by sh so that the top limb of
\* b has its top bit set
BDivModAt(a, b, sh) ==
    LET qr == BDivModR(BShl(a, sh), BShl(b, sh))
    IN  <<BNorm(qr[1]), BShr(qr[2], sh)>>

\* <<a \div b, a % b>> for b > 0
BDivMod(a, b) == BDivModAt(a, b, (15 - (BLen(b) % 15)) % 15)

RECURSIVE BPow10(_)
BPow10(x) ==
    IF x = 0 THEN <<1>>
    ELSE LET h == BPow10(x \div 2)
         IN  IF x % 2 = 0 THEN BMul(h, h) ELSE BMulSmall(BMul(h, h), 10)

\* ------------------------------------------------------------------------
\* Python float: IEEE-754 binary64, round to nearest, ties to even.
\* A finite float is canonical: m has exactly MantDig bits, or e = MinExp
\* and m is shorter (subnormal, zero).
\* ------------------------------------------------------------------------

MantDig == 53

MinExp == -1074

MaxExp == 971

\* 10^MaxDecExp is the largest power of ten below the largest float
MaxDecExp == 308

NaN == [k |-> "nan", s |-> 0, m |-> <<>>, e |-> 0]

Inf(s) == [k |-> "inf", s |-> s, m |-> <<>>, e |-> 0]

Zero(s) == [k |-> "fin", s |-> s, m |-> <<>>, e |-> MinExp]

IsNaN(x) == x.k = "nan"

IsInf(x) == x.k = "inf"

IsZero(x) == x.k = "fin" /\ x.m = <<>>

\* the float (-1)^s * q * 2^e of a mantissa q of at most MantDig + 1 bits,
\* the lowest of them 0 when there are MantDig + 1
FPack(s, q, e) ==
    IF q = <<>> THEN Zero(s)
    ELSE IF BLen(q) > MantDig
        THEN (IF e + 1 > MaxExp THEN Inf(s)
              ELSE [k |-> "fin", s |-> s, m |-> BShr(q, 1), e |-> e + 1])
    ELSE IF e > MaxExp THEN Inf(s)
    ELSE [k |-> "fin", s |-> s, m |-> q, e |-> e]

\* m, of which q are the bits above the lowest sh, rounded to q or q + 1:
\* to the nearest, a tie to the even one
FRoundTo(s, m, e, sh, q, sticky) ==
    IF /\ sh > 0
       /\ BBit(m, sh - 1) = 1
       /\ (sticky \/ BLowNonzero(m, sh - 1) \/ BBit(q, 0) = 1)
    THEN FPack(s, BAddC(q, <<>>, 1), e + sh)
    ELSE FPack(s, q, e + sh)

\* The float nearest to (-1)^s * (m + f) * 2^e, where 0 <= f < 1 and
\* f > 0 exactly when sticky; a sticky m has at least MantDig + 2 bits.
FRound(s, m, e, sticky) ==
    IF m = <<>> THEN Zero(s)
    ELSE LET sh == Max(e + BLen(m) - MantDig, MinExp) - e
         IN  FRoundTo(s, m, e, sh, IF sh <= 0 THEN BShl(m, -sh) ELSE BShr(m, sh), sticky)

\* the float nearest to (-1)^s * (a / b) * 2^e, from the quotient and the
\* remainder of a * 2^sh by b
FRoundQuotient(s, qr, e) == FRound(s, qr[1], e, qr[2] # <<>>)

\* the float nearest to (-1)^s * (a / b) * 2^e for a, b > 0: the quotient is
\* taken with at least MantDig + 2 bits
FRatio(s, a, b, e) ==
    LET sh == Max(0, MantDig + 3 + BLen(b) - BLen(a))
    IN  FRoundQuotient(s, BDivMod(BShl(a, sh), b), e - sh)

\* float(n) of a Python int
IntToFloat(n) == FRound(IF n < 0 THEN 1 ELSE 0, BFromInt(IF n < 0 THEN -n ELSE n), 0, FALSE)

\* The float nearest to (-1)^s * d * 10^x, d a natural number: what float()
\* makes of a decimal literal.
DecToFloat(s, d, x) ==
    IF d = <<>> THEN Zero(s)
    ELSE IF x > MaxDecExp THEN Inf(s)
    ELSE IF x + 5 * Len(d) < -330 THEN Zero(s)
    ELSE IF x >= 0 THEN FRound(s, BMul(d, BPow10(x)), 0, FALSE)
    ELSE FRatio(s, d, BPow10(-x), 0)

FNeg(x) == [x EXCEPT !.s = 1 - x.s]

FAbs(x) == [x EXCEPT !.s = 0]

\* -1, 0, 1 as |x| < |y|, |x| = |y|, |x| > |y|, for finite x and y
MagCmp(x, y) ==
    IF x.e # y.e THEN (IF x.e < y.e THEN -1 ELSE 1) ELSE BCmp(x.m, y.m)

\* -1, 0, 1 as |x| < |y|, |x| = |y|, |x| > |y|, for x and y that are not NaN
AbsCmp(x, y) ==
    IF IsInf(x) THEN (IF IsInf(y) THEN 0 ELSE 1)
    ELSE IF IsInf(y) THEN -1
    ELSE MagCmp(x, y)

\* x < y
FLt(x, y) ==
    /\ ~IsNaN(x) /\ ~IsNaN(y)
    /\ ~(IsZero(x) /\ IsZero(y))
    /\ IF x.s # y.s THEN x.s = 1
       ELSE IF x.s = 0 THEN AbsCmp(x, y) < 0
       ELSE AbsCmp(x, y) > 0

\* x == y
FEq(x, y) ==
    /\ ~IsNaN(x) /\ ~IsNaN(y)
    /\ \/ IsZero(x) /\ IsZero(y)
       \/ x = y

FLe(x, y) == FLt(x, y) \/ FEq(x, y)

FGt(x, y) == FLt(y, x)

FGe(x, y) == FLe(y, x)

\* the sign of a product or a quotient
SignOf(x, y) == (x.s + y.s) % 2

\* x * y
FMul(x, y) ==
    IF IsNaN(x) \/ IsNaN(y) THEN NaN
    ELSE IF IsInf(x) \/ IsInf(y)
         THEN (IF IsZero(x) \/ IsZero(y) THEN NaN ELSE Inf(SignOf(x, y)))
    ELSE FRound(SignOf(x, y), BMul(x.m, y.m), x.e + y.e, FALSE)

\* x / y; Python raises ZeroDivisionError for a zero divisor
Raised(what) == [k |-> "raise", s |-> 0, m |-> <<>>, e |-> 0, what |-> what]

IsRaised(x) == x.k = "raise"

FDiv(x, y) ==
    IF IsZero(y) THEN Raised("ZeroDivisionError")
    ELSE IF IsNaN(x) \/ IsNaN(y) THEN NaN
    ELSE IF IsInf(x) THEN (IF IsInf(y) THEN NaN ELSE Inf(SignOf(x, y)))
    ELSE IF IsInf(y) THEN Zero(SignOf(x, y))
    ELSE IF IsZero(x) THEN Zero(SignOf(x, y))
    ELSE FRatio(SignOf(x, y), x.m, y.m, x.e - y.e)

\* (-1)^sx * a * 2^e + (-1)^sy * b * 2^e for a, b > 0
FAddAligned(sx, a, sy, b, e) ==
    IF sx = sy THEN FRound(sx, BAdd(a, b), e, FALSE)
    ELSE IF BCmp(a, b) = 0 THEN Zero(0)
    ELSE IF BCmp(a, b) > 0 THEN FRound(sx, BSub(a, b), e, FALSE)
    ELSE FRound(sy, BSub(b, a), e, FALSE)

\* x + y.  A finite addend more than MantDig + 3 binary places below the
\* other is less than a quarter of its last place and leaves it unchanged.
FAdd(x, y) ==
    IF IsNaN(x) \/ IsNaN(y) THEN NaN
    ELSE IF IsInf(x) THEN (IF IsInf(y) /\ x.s # y.s THEN NaN ELSE x)
    ELSE IF IsInf(y) THEN y
    ELSE IF IsZero(x) /\ IsZero(y) THEN Zero(IF x.s = 1 /\ y.s = 1 THEN 1 ELSE 0)
    ELSE IF IsZero(y) \/ x.e - y.e > MantDig + 3 THEN x
    ELSE IF IsZero(x) \/ y.e - x.e > MantDig + 3 THEN y
    ELSE FAddAligned(x.s, BShl(x.m, x.e - Min(x.e, y.e)),
                     y.s, BShl(y.m, y.e - Min(x.e, y.e)), Min(x.e, y.e))

\* x - y
FSub(x, y) == FAdd(x, FNeg(y))

\* ------------------------------------------------------------------------
\* Python values and text.  A value is a record tagged with its type:
\* None, bool, int, float, str, or list for anything else JSON can carry.
\* ------------------------------------------------------------------------

None == [t |-> "None"]

IsNone(r) == r.t = "None"

PyBool(b) == [t |-> "bool", b |-> b]

PyInt(n) == [t |-> "int", n |-> n]

PyFloat(x) == [t |-> "float", f |-> x]

PyStr(s) == [t |-> "str", text |-> s]

PyList == [t |-> "list"]

\* a Python int too large for 32 bits, given by its limbs
PyLong(m) == [t |-> "long", big |-> m]

\* an exception leaving a function
Raise(what) == [t |-> "raise", what |-> what]

IsRaise(r) == r.t = "raise"

Char(s, i) == SubSeq(s, i, i)

Whitespace == {" "}

Digits == "0123456789"

Lowers == "abcdefghijklmnopqrstuvwxyz"

Uppers == "ABCDEFGHIJKLMNOPQRSTUVWXYZ"

\* the position of character c in alphabet, 0 when it is not in it
PosIn(c, alphabet) ==
    LET I == {i \in 1..Len(alphabet) : Char(alphabet, i) = c}
    IN  IF I = {} THEN 0 ELSE CHOOSE i \in I : TRUE

IsDigit(c) == PosIn(c, Digits) # 0

\* str.strip()
Strip(s) ==
    LET I == {i \in 1..Len(s) : Char(s, i) \notin Whitespace}
    IN  IF I = {} THEN ""
        ELSE SubSeq(s, CHOOSE i \in I : \A j \in I : i <= j,
                       CHOOSE i \in I : \A j \in I : i >= j)

\* str.replace(c, d) for a character c and a text d
RECURSIVE Replace(_, _, _)
Replace(s, c, d) ==
    IF s = "" THEN ""
    ELSE (IF Head(s) = c THEN d ELSE Head(s)) \o Replace(Tail(s), c, d)

UpperChar(c) == IF PosIn(c, Lowers) = 0 THEN c ELSE Char(Uppers, PosIn(c, Lowers))

LowerChar(c) == IF PosIn(c, Uppers) = 0 THEN c ELSE Char(Lowers, PosIn(c, Uppers))

\* str.upper()
RECURSIVE Upper(_)
Upper(s) == IF s = "" THEN "" ELSE UpperChar(Head(s)) \o Upper(Tail(s))

\* str.lower()
RECURSIVE Lower(_)
Lower(s) == IF s = "" THEN "" ELSE LowerChar(Head(s)) \o Lower(Tail(s))

\* str.endswith(suffix)
EndsWith(s, suffix) ==
    Len(s) >= Len(suffix) /\ SubSeq(s, Len(s) - Len(suffix) + 1, Len(s)) = suffix

\* s[:-n]
DropLast(s, n) == SubSeq(s, 1, Len(s) - n)

\* the first position of a character of set C in s, 0 when there is none
FirstPos(s, C) ==
    LET I == {i \in 1..Len(s) : Char(s, i) \in C}
    IN  IF I = {} THEN 0 ELSE CHOOSE i \in I : \A j \in I : i <= j

\* a group of digits in a numeric literal: digits, with single underscores
\* between digits only
IsDigitGroup(s) ==
    /\ s # ""
    /\ \A i \in 1..Len(s) :
          \/ IsDigit(Char(s, i))
          \/ /\ Char(s, i) = "_"
             /\ i > 1 /\ i < Len(s)
             /\ IsDigit(Char(s, i - 1)) /\ IsDigit(Char(s, i + 1))

\* the natural number a group of digits writes
RECURSIVE DigitsValue(_)
DigitsValue(s) ==
    IF s = "" THEN <<>>
    ELSE LET c == Char(s, Len(s))
         IN  IF c = "_" THEN DigitsValue(DropLast(s, 1))
             ELSE BMulSmallC(DigitsValue(DropLast(s, 1)), 10, PosIn(c, Digits) - 1)

\* the exponent a group of digits writes, capped where every float is
\* already infinite or zero
ExpCap == 100000

RECURSIVE ExpValue(_)
ExpValue(s) ==
    IF s = "" THEN 0
    ELSE LET c == Char(s, Len(s))
         IN  IF c = "_" THEN ExpValue(DropLast(s, 1))
             ELSE Min(ExpCap, ExpValue(DropLast(s, 1)) * 10 + PosIn(c, Digits) - 1)

CountDigits(s) == Cardinality({i \in 1..Len(s) : IsDigit(Char(s, i))})

\* a text without its leading sign, and whether that sign is a minus
Unsigned(s) == IF s # "" /\ Head(s) \in {"+", "-"} THEN Tail(s) ELSE s

Minus(s) == IF s # "" /\ Head(s) = "-" THEN 1 ELSE 0

\* the float of a literal: sign sg, digits ip before the point and fp after
\* it, and the exponent text expo when given ("e" seen)
FloatOfDigits(sg, ip, fp, given, expo) ==
    IF /\ ip = "" \/ IsDigitGroup(ip)
       /\ fp = "" \/ IsDigitGroup(fp)
       /\ ip # "" \/ fp # ""
       /\ ~given \/ IsDigitGroup(Unsigned(expo))
    THEN PyFloat(DecToFloat(sg, DigitsValue(ip \o fp),
                            (IF Minus(expo) = 1 THEN -ExpValue(Unsigned(expo))
                             ELSE ExpValue(Unsigned(expo))) - CountDigits(fp)))
    ELSE Raise("ValueError")

\* the float of an unsigned literal s whose "e" is at position ePos, 0 when
\* it has none
FloatOfLiteral(sg, s, ePos) ==
    LET mant == IF ePos = 0 THEN s ELSE SubSeq(s, 1, ePos - 1)
        dot  == FirstPos(mant, {"."})
    IN  FloatOfDigits(sg, IF dot = 0 THEN mant ELSE SubSeq(mant, 1, dot - 1),
                      IF dot = 0 THEN "" ELSE SubSeq(mant, dot + 1, Len(mant)),
                      ePos # 0, IF ePos = 0 THEN "" ELSE SubSeq(s, ePos + 1, Len(s)))

\* the float of a stripped, unsigned text, up being the text in capitals
FloatOfText(sg, s, up) ==
    IF up \in {"INF", "INFINITY"} THEN PyFloat(Inf(sg))
    ELSE IF up = "NAN" THEN PyFloat([NaN EXCEPT !.s = sg])
    ELSE FloatOfLiteral(sg, s, FirstPos(up, {"E"}))

\* float(s) of a text: [sign] (inf | infinity | nan | digits [. digits]
\* [e [sign] digits]), surrounded by whitespace; ValueError otherwise
StrToFloat(s0) ==
    FloatOfText(Minus(Strip(s0)), Unsigned(Strip(s0)), Upper(Unsigned(Strip(s0))))

\* float(value) of any value: TypeError for None and containers
ToFloat(value) ==
    CASE value.t = "float" -> value
      [] value.t = "int"   -> PyFloat(IntToFloat(value.n))
      [] value.t = "bool"  -> PyFloat(IntToFloat(IF value.b THEN 1 ELSE 0))
      [] value.t = "str"   -> StrToFloat(value.text)
      [] OTHER             -> Raise("TypeError")

\* x * k for a float value x and an integer k; an exception passes through
Scale(x, k) == IF IsRaise(x) THEN x ELSE PyFloat(FMul(x.f, IntToFloat(k)))

\* what a K, M or B at the end of a text multiplies by, 0 without one
Multiplier(cleaned) ==
    IF EndsWith(cleaned, "K") THEN 1000
    ELSE IF EndsWith(cleaned, "M") THEN 1000000
    ELSE IF EndsWith(cleaned, "B") THEN 1000000000
    ELSE 0

\* x * k with a suffix, x as it is without
Scaled(x, k) == IF k = 0 THEN x ELSE Scale(x, k)

\* except ValueError: the second attempt, float(cleaned.replace("E", "e")),
\* and None when that fails too
RetryIfRaise(first, second) ==
    IF ~IsRaise(first) THEN first
    ELSE IF ~IsRaise(second) THEN second
    ELSE None

\* float(value) of a large int: the nearest float, OverflowError beyond the
\* largest one
LongToFloat(m) ==
    IF IsInf(FRound(0, m, 0, FALSE)) THEN Raise("OverflowError")
    ELSE PyFloat(FRound(0, m, 0, FALSE))

\* float(value) of a number, None for NaN
NoneIfNaN(numeric) == IF IsNaN(numeric.f) THEN None ELSE numeric

\* parse_numeric of a text that is stripped and not empty: float(cleaned[:-1])
\* * k with a suffix, float(cleaned) without, then the second attempt
ParseText(cleaned) ==
    LET k == Multiplier(cleaned)
    IN  RetryIfRaise(Scaled(StrToFloat(IF k = 0 THEN cleaned ELSE DropLast(cleaned, 1)), k),
                     StrToFloat(Replace(cleaned, "E", "e")))

\* parse_numeric: a float from user input with K, M or B suffixes, or None
parse_numeric(value) ==
    CASE value.t = "None"  -> None
      [] value.t = "bool"  -> None
      [] value.t = "int"   -> NoneIfNaN(PyFloat(IntToFloat(value.n)))
      [] value.t = "long"  -> LongToFloat(value.big)
      [] value.t = "float" -> NoneIfNaN(value)
      [] value.t = "str"   ->
            IF Strip(value.text) = "" THEN None
            ELSE ParseText(Upper(Replace(Replace(Strip(value.text), ",", ""), " ", "")))
      [] OTHER             -> Raise("AttributeError")

\* a slip that scales by a thousand instead of a million
AsThousands(numeric) ==
    IF FGe(numeric.f, IntToFloat(1000000)) THEN numeric ELSE Scale(numeric, 1000)

\* the closing rule of parse_millions: a number of at least 1,000,000 stays,
\* a smaller one is taken to be in millions
AsMillions(numeric) ==
    IF FGe(numeric.f, IntToFloat(1000000)) THEN numeric ELSE Scale(numeric, 1000000)

\* a stripped text without the word "cells" or "cell" at its end
WithoutCells(stripped) ==
    IF EndsWith(Lower(stripped), "cells") THEN Strip(DropLast(stripped, 5))
    ELSE IF EndsWith(Lower(stripped), "cell") THEN Strip(DropLast(stripped, 4))
    ELSE stripped

\* the cell count of a text: numeric is the number it parses to, upper the
\* text in capitals
MillionsOfText(numeric, upper) ==
    IF IsNone(numeric) THEN None
    ELSE IF EndsWith(upper, "M") THEN numeric
    ELSE IF FirstPos(upper, {"E"}) # 0 \/ EndsWith(upper, "CELLS") THEN numeric
    ELSE AsMillions(numeric)

\* parse_millions: a cell count, short numbers read as millions
parse_millions(value) ==
    CASE value.t = "None" -> None
      [] value.t \in {"int", "float"} ->
            IF IsNone(parse_numeric(value)) THEN None
            ELSE AsMillions(parse_numeric(value))
      [] value.t = "str" ->
            IF Strip(value.text) = "" THEN None
            ELSE MillionsOfText(parse_numeric(PyStr(WithoutCells(Strip(value.text)))),
                                Upper(WithoutCells(Strip(value.text))))
      [] OTHER -> Raise("AttributeError")

\* the natural number a bignum holds
RECURSIVE BToInt(_)
BToInt(a) == IF a = <<>> THEN 0 ELSE Head(a) + Base * BToInt(Tail(a))

\* whether a finite float is a whole number
IsIntegral(x) == x.e >= 0 \/ ~BLowNonzero(x.m, -x.e)

\* the whole part of a finite float, rounded towards zero
Trunc(x) ==
    IF x.s = 1 THEN -BToInt(IF x.e >= 0 THEN BShl(x.m, x.e) ELSE BShr(x.m, -x.e))
    ELSE BToInt(IF x.e >= 0 THEN BShl(x.m, x.e) ELSE BShr(x.m, -x.e))

\* int(s) of a text: [sign] digits, surrounded by whitespace
StrToInt(s0) ==
    IF ~IsDigitGroup(Unsigned(Strip(s0))) THEN Raise("ValueError")
    ELSE PyInt(IF Minus(Strip(s0)) = 1 THEN -BToInt(DigitsValue(Unsigned(Strip(s0))))
               ELSE BToInt(DigitsValue(Unsigned(Strip(s0)))))

\* int(value) of any value
ToInt(value) ==
    CASE value.t = "int"   -> value
      [] value.t = "bool"  -> PyInt(IF value.b THEN 1 ELSE 0)
      [] value.t = "float" ->
            IF IsNaN(value.f) THEN Raise("ValueError")
            ELSE IF IsInf(value.f) THEN Raise("OverflowError")
            ELSE PyInt(Trunc(value.f))
      [] value.t = "str"   -> StrToInt(value.text)
      [] OTHER             -> Raise("TypeError")

\* the truth value of a value in a condition
Truthy(value) ==
    CASE value.t = "None"  -> FALSE
      [] value.t = "bool"  -> value.b
      [] value.t = "int"   -> value.n # 0
      [] value.t = "float" -> ~IsZero(value.f)
      [] value.t = "str"   -> value.text # ""
      [] OTHER             -> TRUE

\* min(x, y) and max(x, y) of two floats: the first argument unless the
\* second compares smaller (larger)
PyMin(x, y) == IF FLt(y, x) THEN y ELSE x

PyMax(x, y) == IF FGt(y, x) THEN y ELSE x

\* a slip that doubles once too often
TwoToNext(n) == FRound(0, <<1>>, n + 1, FALSE)

\* 2^n for a whole number n
TwoTo(n) ==
    IF n >= MaxExp + MantDig THEN Raised("OverflowError")
    ELSE FRound(0, <<1>>, n, FALSE)

\* math.pow(2, y): exact for whole y, which is what the requests of this
\* model produce; OverflowError when the result exceeds the largest float
Pow2(y) ==
    IF IsNaN(y) THEN NaN
    ELSE IF IsInf(y) THEN (IF y.s = 0 THEN Inf(0) ELSE Zero(0))
    ELSE IF IsZero(y) THEN IntToFloat(1)
    ELSE IF y.e + BLen(y.m) > 12
         THEN (IF y.s = 0 THEN Raised("OverflowError") ELSE Zero(0))
    ELSE IF IsIntegral(y) THEN TwoTo(Trunc(y))
    ELSE Raised("NotWhole")

\* ------------------------------------------------------------------------
\* Display formatting: format_cells, format_volume, format_significant
\* ------------------------------------------------------------------------

\* the decimal digits of a natural number, "" for zero
RECURSIVE DecimalText(_)
DecimalText(a) ==
    IF a = <<>> THEN ""
    ELSE DecimalText(BDivSmall(a, 10)[1]) \o Char(Digits, BDivSmall(a, 10)[2] + 1)

RECURSIVE Zeros(_)
Zeros(n) == IF n <= 0 THEN "" ELSE "0" \o Zeros(n - 1)

\* the quotient qr[1] of a division by b with remainder qr[2], rounded to the
\* nearest whole number, a tie to the even one
RoundHalfEven(qr, b) ==
    IF \/ BCmp(BShl(qr[2], 1), b) > 0
       \/ BCmp(BShl(qr[2], 1), b) = 0 /\ BBit(qr[1], 0) = 1
    THEN BAddC(qr[1], <<>>, 1)
    ELSE qr[1]

\* a / b rounded to the nearest whole number
RoundedRatio(a, b) == RoundHalfEven(BDivMod(a, b), b)

\* a finite float x > 0 against 10^k as two natural numbers <<a, b>> with
\* x / 10^k = a / b
OverPow10(x, k) ==
    << BMul(BShl(x.m, Max(x.e, 0)), BPow10(Max(-k, 0))),
       BMul(BShl(<<1>>, Max(-x.e, 0)), BPow10(Max(k, 0))) >>

\* |x| * 10^n rounded to a whole number: the digits of a finite float at n
\* decimal places, as "%.nf" and round(x, n) take them from the exact value
Quantize(x, n) == RoundedRatio(OverPow10(x, -n)[1], OverPow10(x, -n)[2])

\* digits with a point before the last d of them
PointAt(digits, d) ==
    IF d = 0 THEN digits
    ELSE SubSeq(digits, 1, Len(digits) - d) \o "." \o
         SubSeq(digits, Len(digits) - d + 1, Len(digits))

\* digits of a whole number at d decimal places: at least one before the point
FixedDigits(digits, d) == PointAt(Zeros(d + 1 - Len(digits)) \o digits, d)

\* f"{x:.{d}f}" of a float
FormatFixed(x, d) ==
    IF IsNaN(x) THEN "nan"
    ELSE IF IsInf(x) THEN (IF x.s = 1 THEN "-inf" ELSE "inf")
    ELSE (IF x.s = 1 THEN "-" ELSE "") \o FixedDigits(DecimalText(Quantize(x, d)), d)

\* round(x, n) of a float: the float nearest to x rounded at n decimal places
PyRound(x, n) ==
    IF x.k # "fin" \/ n > 323 THEN x
    ELSE IF n < -308 THEN Zero(x.s)
    ELSE IF IsInf(DecToFloat(x.s, Quantize(x, n), -n)) THEN Raised("OverflowError")
    ELSE DecToFloat(x.s, Quantize(x, n), -n)

\* the k with 10^k <= x < 10^(k + 1) for a finite x > 0, g being the guess
\* from the binary exponent, off by one at most
Order10From(x, g) ==
    IF BCmp(OverPow10(x, g + 1)[1], OverPow10(x, g + 1)[2]) >= 0 THEN g + 1
    ELSE IF BCmp(OverPow10(x, g)[1], OverPow10(x, g)[2]) >= 0 THEN g
    ELSE g - 1

Order10(x) == Order10From(x, ((x.e + BLen(x.m) - 1) * 30103) \div 100000)

\* whether a / b >= 1 - 2^-sh
NearOne(a, b, sh) == BCmp(BShl(a, sh), BSub(BShl(b, sh), b)) >= 0

\* math.floor(math.log10(x)) of a finite x > 0: the k with 10^k <= x <
\* 10^(k + 1), and also k + 1 where x is so close below 10^(k + 1) that the
\* logarithm, a float with an error of the C library's, may come out whole
Log10Floors(x, k) ==
    IF k + 1 # 0 /\ NearOne(OverPow10(x, k + 1)[1], OverPow10(x, k + 1)[2],
                            50 - IntLen(IF k + 1 < 0 THEN -(k + 1) ELSE k + 1))
    THEN {k, k + 1}
    ELSE {k}

\* the unit signs the templates cannot write in seven bits, by code point
EmDash == "\\u2014"

Thousand == IntToFloat(1000)

\* a slip that forgets the thousands
format_cells_without_K(value) ==
    IF IsNone(value) THEN PyStr(EmDash)
    ELSE IF FGe(FAbs(value.f), IntToFloat(1000000000))
         THEN PyStr(FormatFixed(FDiv(value.f, IntToFloat(1000000000)), 2) \o " B")
    ELSE IF FGe(FAbs(value.f), IntToFloat(1000000))
         THEN PyStr(FormatFixed(FDiv(value.f, IntToFloat(1000000)), 2) \o " M")
    ELSE PyStr(FormatFixed(value.f, 0))

\* format_cells: a cell count in B, M or K with two decimals
format_cells(value) ==
    IF IsNone(value) THEN PyStr(EmDash)
    ELSE IF FGe(FAbs(value.f), IntToFloat(1000000000))
         THEN PyStr(FormatFixed(FDiv(value.f, IntToFloat(1000000000)), 2) \o " B")
    ELSE IF FGe(FAbs(value.f), IntToFloat(1000000))
         THEN PyStr(FormatFixed(FDiv(value.f, IntToFloat(1000000)), 2) \o " M")
    ELSE IF FGe(FAbs(value.f), Thousand)
         THEN PyStr(FormatFixed(FDiv(value.f, Thousand), 2) \o " K")
    ELSE PyStr(FormatFixed(value.f, 0))

\* a slip that writes every volume in mL
VolumeTextInMl(volume_ml) ==
    IF FEq(volume_ml, Zero(0)) THEN "0.00 mL" ELSE FormatFixed(volume_ml, 2) \o " mL"

\* format_volume of a volume that is not negative
VolumeText(volume_ml) ==
    IF FEq(volume_ml, Zero(0)) THEN "0.00 mL"
    ELSE IF FLt(volume_ml, DecToFloat(0, <<1>>, -2))
         THEN FormatFixed(FMul(volume_ml, Thousand), 2) \o " uL"
    ELSE FormatFixed(volume_ml, 2) \o " mL"

\* format_volume: a volume in mL, in uL below 0.01 mL
format_volume(volume_ml) ==
    IF IsNone(volume_ml) THEN None
    ELSE IF FLt(volume_ml.f, Zero(0)) THEN PyStr("-" \o VolumeText(FAbs(volume_ml.f)))
    ELSE PyStr(VolumeText(volume_ml.f))

\* a slip that drops the decimals of every result
SignificantTextWhole(rounded, scale) ==
    IF IsRaised(rounded) THEN Raise(rounded.what)
    ELSE PyStr(FormatFixed(rounded, 0))

\* what format_significant returns for round(value, scale)
SignificantText(rounded, scale) ==
    IF IsRaised(rounded) THEN Raise(rounded.what)
    ELSE PyStr(FormatFixed(rounded, Max(scale, 0)))

\* format_significant: value at `digits` significant figures, order being
\* what math.floor(math.log10(absolute)) gave
format_significant(value, digits, order) ==
    IF IsNone(value) THEN None
    ELSE IF FEq(value.f, Zero(0)) THEN PyStr("0")
    ELSE IF IsNaN(value.f) THEN Raise("ValueError")
    ELSE IF IsInf(value.f) THEN Raise("OverflowError")
    ELSE SignificantText(PyRound(value.f, digits - 1 - order), digits - 1 - order)

\* ------------------------------------------------------------------------
\* The seeding calculator, POST /api/calc-seeding
\* ------------------------------------------------------------------------

\* a key the JSON object does not carry
Absent == [t |-> "absent"]

\* payload.get(key, default)
Get(payload, key, default) == IF payload[key].t = "absent" THEN default ELSE payload[key]

\* jsonify({"error": message}), status
ErrorResponse(message, status) == [status |-> status, body |-> [error |-> message]]

\* jsonify(response)
ResultResponse(body) == [status |-> 200, body |-> body]

\* an exception no handler catches: the server answers 500 with an error page
ServerError(what) == [status |-> 500, body |-> [exception |-> what]]

\* value <= 0 for a parsed number
NotPositive(value) == FLe(value.f, Zero(0))

\* CellLine.average_doubling_time: the mean of the min and max doubling
\* times that are set and not zero
average_doubling_time(cell_line) ==
    LET lo == cell_line.doubling_time_min_hours
        hi == cell_line.doubling_time_max_hours
    IN  IF Truthy(lo) /\ Truthy(hi)
            THEN PyFloat(FDiv(FAdd(FAdd(Zero(0), lo.f), hi.f), IntToFloat(2)))
        ELSE IF Truthy(lo) THEN PyFloat(FDiv(FAdd(Zero(0), lo.f), IntToFloat(1)))
        ELSE IF Truthy(hi) THEN PyFloat(FDiv(FAdd(Zero(0), hi.f), IntToFloat(1)))
        ELSE None

\* a slip that never reports the portions
DilutionExtrasWithoutPortions(cells_to_seed, volume_per_seed_ml, total_volume_ml) ==
    (IF IsNone(cells_to_seed) THEN <<>>
     ELSE [x \in {"cells_to_seed"} |-> cells_to_seed])
    @@ (IF IsNone(volume_per_seed_ml) THEN <<>>
        ELSE [x \in {"volume_per_seed_ml"} |-> volume_per_seed_ml])

\* the fields of a dilution result that depend on which inputs were given
DilutionExtras(cells_to_seed, volume_per_seed_ml, total_volume_ml) ==
    (IF IsNone(cells_to_seed) THEN <<>>
     ELSE [x \in {"cells_to_seed"} |-> cells_to_seed])
    @@ (IF IsNone(volume_per_seed_ml) THEN <<>>
        ELSE [x \in {"volume_per_seed_ml"} |-> volume_per_seed_ml])
    @@ (IF Truthy(volume_per_seed_ml) /\ FGt(volume_per_seed_ml.f, Zero(0))
        THEN [x \in {"portions_prepared"} |->
                 PyFloat(FDiv(total_volume_ml.f, volume_per_seed_ml.f))]
        ELSE <<>>)

\* cells_needed = final_concentration * total_volume_ml
cells_needed(final, total) == FMul(final, total)

\* slurry_volume_ml = cells_needed / cell_concentration
slurry_volume_ml(cells, concentration) == FDiv(cells, concentration)

\* a slip that subtracts the wrong way round
media_volume_reversed(total, slurry) == FSub(slurry, total)

\* media_volume_ml = total_volume_ml - slurry_volume_ml
media_volume_ml(total, slurry) == FSub(total, slurry)

\* the answer of the dilution planner, cells and slurry being cells_needed
\* and slurry_volume_ml
DilutionAnswer(input_mode, cell_concentration, total_volume_ml, final_concentration, cells_to_seed, volume_per_seed_ml, cells, slurry) ==
    IF FGt(slurry, total_volume_ml.f)
    THEN ErrorResponse("Target concentration is higher than the starting suspension. Use a more concentrated source or reduce the final volume.", 400)
    ELSE ResultResponse(
           [mode |-> PyStr("dilution"),
            dilution_input_mode |-> PyStr(input_mode),
            final_concentration |-> final_concentration,
            total_volume_ml     |-> total_volume_ml,
            cells_needed        |-> PyFloat(cells),
            slurry_volume_ml    |-> PyFloat(slurry),
            media_volume_ml     |-> PyFloat(media_volume_ml(total_volume_ml.f, slurry)),
            cell_concentration  |-> cell_concentration]
           @@ DilutionExtras(cells_to_seed, volume_per_seed_ml, total_volume_ml))

\* the dilution planner once the final concentration is known
DilutionPlan(input_mode, cell_concentration, total_volume_ml, final_concentration, cells_to_seed, volume_per_seed_ml) ==
    DilutionAnswer(input_mode, cell_concentration, total_volume_ml, final_concentration,
                   cells_to_seed, volume_per_seed_ml,
                   cells_needed(final_concentration.f, total_volume_ml.f),
                   slurry_volume_ml(cells_needed(final_concentration.f, total_volume_ml.f),
                                    cell_concentration.f))

\* payload.get("dilution_input_mode") or "concentration"
InputMode(payload) ==
    IF Truthy(Get(payload, "dilution_input_mode", None))
    THEN Get(payload, "dilution_input_mode", None)
    ELSE PyStr("concentration")

\* the cells mode of the dilution branch
DilutionByCells(cell_concentration, total_volume_ml, cells_to_seed, volume_per_seed_ml) ==
    IF IsRaise(cells_to_seed) THEN ServerError(cells_to_seed.what)
    ELSE IF IsRaise(volume_per_seed_ml) THEN ServerError(volume_per_seed_ml.what)
    ELSE IF IsNone(cells_to_seed) \/ NotPositive(cells_to_seed)
        THEN ErrorResponse("Number of cells to seed must be greater than zero.", 400)
    ELSE IF IsNone(volume_per_seed_ml) \/ NotPositive(volume_per_seed_ml)
        THEN ErrorResponse("Volume for seeding must be greater than zero.", 400)
    ELSE DilutionPlan("cells", cell_concentration, total_volume_ml,
                      PyFloat(FDiv(cells_to_seed.f, volume_per_seed_ml.f)),
                      cells_to_seed, volume_per_seed_ml)

\* the concentration mode of the dilution branch
DilutionByFinal(cell_concentration, total_volume_ml, final_concentration) ==
    IF IsRaise(final_concentration) THEN ServerError(final_concentration.what)
    ELSE IF IsNone(final_concentration) \/ NotPositive(final_concentration)
        THEN ErrorResponse("Final concentration must be greater than zero.", 400)
    ELSE DilutionPlan("concentration", cell_concentration, total_volume_ml,
                      final_concentration, None, None)

\* the dilution branch once the input mode and the total volume are read
DilutionOf(payload, cell_concentration, input_mode, total_volume_ml) ==
    IF IsRaise(total_volume_ml) THEN ServerError(total_volume_ml.what)
    ELSE IF IsNone(total_volume_ml) \/ NotPositive(total_volume_ml)
        THEN ErrorResponse("Total volume must be greater than zero.", 400)
    ELSE IF input_mode = "cells"
        THEN DilutionByCells(cell_concentration, total_volume_ml,
                             parse_numeric(Get(payload, "cells_to_seed", None)),
                             parse_numeric(Get(payload, "volume_per_seed_ml", None)))
    ELSE DilutionByFinal(cell_concentration, total_volume_ml,
                         parse_numeric(Get(payload, "final_concentration", None)))

\* the dilution branch of calculate_seeding
Dilution(payload, cell_concentration) ==
    IF InputMode(payload).t # "str" THEN ServerError("AttributeError")
    ELSE DilutionOf(payload, cell_concentration, Lower(Strip(InputMode(payload).text)),
                    parse_numeric(Get(payload, "total_volume_ml", None)))

VARIABLES
    vessels,     \* table vessel: id -> row
    cell_lines,  \* table cell_line: id -> row
    cultures,    \* table culture: id -> row
    pc,          \* "idle", or "calc" while a calculator request is being served
    request,     \* the JSON object of the request being served
    response,    \* the last response sent
    arg,         \* the argument of a helper under test
    result,      \* what the helper returned for it, Pending before the call
    called,      \* which helper was called, and with how many digits
    users,       \* cellSplitter's table user: id -> row
    session,     \* cellSplitter's session cookie of each browser: a user id, 0 without
    accounts,    \* the journal's table users: id -> row
    entries,     \* the journal's table journal_entries: id -> row
    login,       \* the journal's session of each browser: a user id, 0 without
    now,         \* the clock, in seconds
    outbox,      \* the reset tokens issued so far
    failed_login_tracker, \* the journal's FailedLoginTracker._data: key -> count
    since,       \* history: what has happened to each reset token since it was
                 \* issued, of "used", "used again", "changed" (its user's
                 \* password, by another route) and "login" (of its user)
    passages     \* cellSplitter's table passage: id -> row

\* the cell line of the culture with the id int(culture_id) gave
CellLineOf(culture_lookup_id) ==
    IF IsRaise(culture_lookup_id)
        THEN (IF culture_lookup_id.what = "OverflowError" THEN culture_lookup_id ELSE None)
    ELSE IF culture_lookup_id.n = 0 THEN None
    ELSE IF culture_lookup_id.n \notin DOMAIN cultures THEN None
    ELSE [t |-> "row", row |-> cell_lines[cultures[culture_lookup_id.n].cell_line_id]]

\* the cell line a culture id resolves to, None when there is none
LookupCellLine(culture_id) ==
    IF ~Truthy(culture_id) THEN None ELSE CellLineOf(ToInt(culture_id))

\* a slip that lets the cell line's average win over the override
ResolveDoublingTimeFromCellLine(doubling_time_override, cell_line) ==
    IF ~IsNone(cell_line) THEN average_doubling_time(cell_line.row)
    ELSE doubling_time_override

\* the doubling time the planner uses: the override, else the cell line's
\* average when no override was given
ResolveDoublingTime(doubling_time_override, cell_line) ==
    IF IsNone(doubling_time_override) /\ ~IsNone(cell_line)
        THEN average_doubling_time(cell_line.row)
    ELSE doubling_time_override

\* the vessel count int(vessel_count_raw) gave, 1 when it is not a number or
\* not positive
OneIfInvalid(n) ==
    IF IsRaise(n) THEN (IF n.what = "OverflowError" THEN n ELSE PyInt(1))
    ELSE IF n.n <= 0 THEN PyInt(1)
    ELSE n

\* int(vessel_count_raw), 1 when it is not a number or not positive
VesselCount(vessel_count_raw) == OneIfInvalid(ToInt(vessel_count_raw))

\* the result of the confluency planner
ConfluencyResult(vessel_id, fraction, hours, vessel_count, doubling_time, cell_concentration, final_cells, growth_cycles, required_cells, volume_needed) ==
    ResultResponse(
       [mode |-> PyStr("confluency"),
        vessel |-> PyStr(vessels[vessel_id].name),
        vessel_id |-> PyInt(vessel_id),
        vessel_area_cm2 |-> PyFloat(vessels[vessel_id].area_cm2),
        target_confluency |-> PyFloat(FMul(fraction, IntToFloat(100))),
        hours |-> PyFloat(hours),
        doubling_time_used |-> PyFloat(doubling_time),
        growth_cycles |-> PyFloat(growth_cycles),
        final_cells |-> PyFloat(final_cells),
        final_cells_total |-> PyFloat(FMul(final_cells, IntToFloat(vessel_count))),
        required_cells |-> PyFloat(required_cells),
        required_cells_total |-> PyFloat(FMul(required_cells, IntToFloat(vessel_count))),
        volume_needed_ml |-> PyFloat(volume_needed),
        volume_needed_total_ml |-> PyFloat(FMul(volume_needed, IntToFloat(vessel_count))),
        cell_concentration |-> PyFloat(cell_concentration),
        vessels_used |-> PyInt(vessel_count)])

\* the seeding arithmetic once the growth factor is known
ConfluencyGrowth(vessel_id, fraction, hours, vessel_count, doubling_time, cell_concentration, final_cells, growth_cycles, growth_factor) ==
    IF IsRaised(growth_factor) THEN ServerError(growth_factor.what)
    ELSE IF FLe(growth_factor, Zero(0))
        THEN ErrorResponse("Could not compute growth factor.", 400)
    ELSE ConfluencyResult(vessel_id, fraction, hours, vessel_count, doubling_time,
                          cell_concentration, final_cells, growth_cycles,
                          FDiv(final_cells, growth_factor),
                          FDiv(FDiv(final_cells, growth_factor), cell_concentration))

\* the seeding arithmetic once every input is validated
ConfluencyPlan(vessel_id, fraction, hours, vessel_count, doubling_time, cell_concentration) ==
    ConfluencyGrowth(vessel_id, fraction, hours, vessel_count, doubling_time,
                     cell_concentration,
                     FMul(vessels[vessel_id].cells_at_100_confluency, fraction),
                     FDiv(hours, doubling_time), Pow2(FDiv(hours, doubling_time)))

\* a slip that forgets the upper end of the clamp
confluency_fraction_unclamped(percent) == FDiv(PyMax(Zero(0), percent), IntToFloat(100))

\* confluency_fraction = max(0.0, min(percent, 100.0)) / 100.0
confluency_fraction(percent) ==
    FDiv(PyMax(Zero(0), PyMin(percent, IntToFloat(100))), IntToFloat(100))

\* the confluency branch once its inputs are read and converted
ConfluencyOf(cell_concentration, doubling_time_override, vessel_id, percent, fraction, hours, vessel_count, cell_line, doubling_time) ==
    IF IsRaise(doubling_time_override) THEN ServerError(doubling_time_override.what)
    ELSE IF IsRaise(vessel_id) THEN
        (IF vessel_id.what = "OverflowError" THEN ServerError("OverflowError")
         ELSE ErrorResponse("Invalid vessel selection.", 400))
    ELSE IF vessel_id.n \notin DOMAIN vessels THEN ErrorResponse("Vessel not found.", 404)
    ELSE IF IsRaise(percent) THEN ErrorResponse("Invalid confluency percentage.", 400)
    ELSE IF FLe(fraction, Zero(0))
        THEN ErrorResponse("Target confluency must be greater than zero.", 400)
    ELSE IF IsRaise(hours) THEN ErrorResponse("Invalid time horizon.", 400)
    ELSE IF FLe(hours.f, Zero(0))
        THEN ErrorResponse("Time horizon must be greater than zero.", 400)
    ELSE IF IsRaise(vessel_count) THEN ServerError(vessel_count.what)
    ELSE IF IsRaise(cell_line) THEN ServerError(cell_line.what)
    ELSE IF IsNone(doubling_time) \/ NotPositive(doubling_time)
        THEN ErrorResponse("A valid doubling time is required.", 400)
    ELSE ConfluencyPlan(vessel_id.n, fraction, hours.f, vessel_count.n,
                        doubling_time.f, cell_concentration.f)

\* the confluency branch of calculate_seeding
Confluency(payload, cell_concentration) ==
    ConfluencyOf(cell_concentration,
                 parse_numeric(Get(payload, "doubling_time_override", None)),
                 ToInt(Get(payload, "vessel_id", None)),
                 ToFloat(Get(payload, "target_confluency", PyInt(0))),
                 confluency_fraction(ToFloat(Get(payload, "target_confluency", PyInt(0))).f),
                 ToFloat(Get(payload, "target_hours", PyInt(0))),
                 VesselCount(Get(payload, "vessels_used", PyInt(1))),
                 LookupCellLine(Get(payload, "culture_id", None)),
                 ResolveDoublingTime(
                     parse_numeric(Get(payload, "doubling_time_override", None)),
                     LookupCellLine(Get(payload, "culture_id", None))))

\* calculate_seeding once the starting concentration is parsed
CalculateFrom(payload, mode, cell_concentration) ==
    IF IsRaise(cell_concentration) THEN ServerError(cell_concentration.what)
    ELSE IF IsNone(cell_concentration) \/ NotPositive(cell_concentration)
        THEN ErrorResponse("Provide a valid starting cell concentration (e.g. 1e6 cells/mL).", 400)
    ELSE IF mode.t = "str" /\ mode.text = "dilution" THEN Dilution(payload, cell_concentration)
    ELSE Confluency(payload, cell_concentration)

\* calculate_seeding: the response to a JSON object
calculate_seeding(payload) ==
    CalculateFrom(payload, Get(payload, "mode", PyStr("confluency")),
                  parse_numeric(Get(payload, "cell_concentration", None)))

\* ------------------------------------------------------------------------
\* The requests of the model
\* ------------------------------------------------------------------------

\* a JSON number with a fraction or an exponent, as json.loads reads it
Num(text) == PyFloat(StrToFloat(text).f)

\* the smallest positive float, 5e-324
Tiny == PyFloat([k |-> "fin", s |-> 0, m |-> <<1>>, e |-> MinExp])

Keys == {"mode", "cell_concentration", "culture_id", "dilution_input_mode",
         "total_volume_ml", "cells_to_seed", "volume_per_seed_ml", "final_concentration",
         "vessel_id", "target_confluency", "target_hours", "doubling_time_override",
         "vessels_used"}

\* the JSON object that carries the given keys and no other
Object(fields) == [key \in Keys |-> IF key \in DOMAIN fields THEN fields[key] ELSE Absent]

ConcentrationInputs ==
    {Num(text) : text \in {"5e6", "1e6", "-1e6"}}
        \cup {PyStr(text) : text \in {"2M", "1e17", "inf", "nan", "abc"}}
        \cup {PyInt(3), PyInt(0), Absent, PyList}

VolumeInputs ==
    {Num(text) : text \in {"0.1", "0.3"}}
        \cup {PyStr("1,000"), PyStr("inf"), PyInt(10), PyInt(0), PyInt(-5), Absent}

FinalInputs ==
    {Num(text) : text \in {"1e5", "1e6", "2e6", "5e6"}}
        \cup {PyStr("3e6"), PyStr("inf"), PyInt(3), PyInt(1), PyInt(0), Absent}

InputModeInputs ==
    {PyStr(text) : text \in {"cells", " Cells ", "concentration", "portions", ""}}
        \cup {PyInt(0), PyInt(5), Absent}

CellsToSeedInputs == {Num("1e5"), PyStr("2e5"), PyStr("nan"), PyInt(0), Absent}

VolumePerSeedInputs == {Num("0.5"), PyInt(2), PyStr("0.1"), PyInt(0), Absent}

VesselInputs ==
    {PyInt(1), PyInt(2), PyStr("1"), PyBool(TRUE), Num("1.9"), PyInt(99), PyStr("T75"),
     PyFloat(Inf(0)), PyList, Absent}

ConfluencyInputs ==
    {PyInt(80), PyInt(100), PyInt(150), PyStr("50"), Num("0.5"), Tiny, PyInt(0), PyInt(-5),
     PyStr("nan"), PyStr("high"), PyList, Absent}

HoursInputs ==
    {PyInt(48), PyInt(96), PyStr("144"), PyInt(49152), PyStr("inf"), PyStr("nan"),
     PyInt(0), PyInt(-1), PyStr("soon"), Absent}

OverrideInputs ==
    {PyInt(24), PyInt(1), PyStr("12"), PyInt(0), PyInt(-3), PyStr("nan"), PyStr("fast"),
     PyList, Absent}

CultureInputs ==
    {PyInt(1), PyInt(2), PyInt(3), PyInt(4), PyStr("1"), PyInt(99), PyInt(0), PyStr("x"),
     PyFloat(Inf(0)), Absent}

VesselCountInputs ==
    {PyInt(1), PyInt(3), PyStr("2"), PyInt(0), PyInt(-2), PyStr("many"), PyFloat(Inf(0)),
     Absent}

ModeInputs == {PyStr("confluency"), PyStr("Dilution"), PyInt(1), Absent}

\* the requests the model sends
Requests ==
    \* dilution requests that state the final concentration
    { Object([mode |-> PyStr("dilution"), cell_concentration |-> c,
              total_volume_ml |-> v, final_concentration |-> f]) :
        c \in ConcentrationInputs, v \in VolumeInputs, f \in FinalInputs }
    \cup
    \* dilution requests that name an input mode
    { Object([mode |-> PyStr("dilution"), cell_concentration |-> c[1],
              total_volume_ml |-> PyInt(10), final_concentration |-> c[2],
              dilution_input_mode |-> m, cells_to_seed |-> n, volume_per_seed_ml |-> v]) :
        c \in {<<Num("5e6"), Num("1e6")>>, <<Num("1e5"), Absent>>},
        m \in InputModeInputs, n \in CellsToSeedInputs, v \in VolumePerSeedInputs }
    \cup
    \* confluency requests that vary the vessel and the target
    { Object([cell_concentration |-> Num("1e6"), vessel_id |-> v, target_confluency |-> c,
              target_hours |-> PyInt(48), doubling_time_override |-> PyInt(24)]) :
        v \in VesselInputs, c \in ConfluencyInputs }
    \cup
    \* confluency requests that vary the target, the horizon and the override
    { Object([mode |-> PyStr("confluency"), cell_concentration |-> Num("1e6"),
              vessel_id |-> PyInt(1), vessels_used |-> PyInt(1),
              target_confluency |-> c, target_hours |-> h, doubling_time_override |-> d]) :
        c \in ConfluencyInputs, h \in HoursInputs, d \in OverrideInputs }
    \cup
    \* confluency requests that name a culture
    { Object([cell_concentration |-> Num("1e6"), vessel_id |-> PyInt(1),
              target_confluency |-> PyInt(80), target_hours |-> h,
              doubling_time_override |-> d, culture_id |-> k]) :
        h \in {PyInt(48), PyInt(49152)}, d \in OverrideInputs, k \in CultureInputs }
    \cup
    \* confluency requests that vary the number of vessels
    { Object([mode |-> m, cell_concentration |-> c, vessel_id |-> v,
              target_confluency |-> PyInt(80), target_hours |-> PyInt(48),
              culture_id |-> PyInt(1), vessels_used |-> n]) :
        m \in ModeInputs, c \in {Num("1e6"), PyStr("2M"), PyInt(0)},
        v \in {PyInt(1), PyInt(2)}, n \in VesselCountInputs }

\* no request being served, no response sent yet
NoRequest == Object(<<>>)

NoResponse == [status |-> 0, body |-> <<>>]

\* the argument of a helper that has not been called
Pending == [t |-> "pending"]

\* ------------------------------------------------------------------------
\* The state machine
\* ------------------------------------------------------------------------

vars ==
    <<vessels, cell_lines, cultures, pc, request, response, arg, result, called,
      users, session, accounts, entries, login, now, outbox, failed_login_tracker,
      since, passages>>

db == <<vessels, cell_lines, cultures>>

\* the state of the two web applications besides the calculator's tables
web ==
    <<users, session, accounts, entries, login, now, outbox, failed_login_tracker, since,
      passages>>

\* no helper has been called
NotCalled == [fn |-> "", digits |-> 0]

\* the browsers whose sessions are told apart
Browsers == {"a", "b"}

\* both applications before anybody signed up: empty tables, nobody logged
\* in, no mail sent
InitWeb ==
    /\ users = <<>>
    /\ session = [b \in Browsers |-> 0]
    /\ accounts = <<>>
    /\ entries = <<>>
    /\ login = [b \in Browsers |-> 0]
    /\ now = 0
    /\ outbox = {}
    /\ failed_login_tracker = <<>>
    /\ since = <<>>
    /\ passages = <<>>

\* the tables as seeded at start-up and filled through the forms
InitDb ==
    /\ vessels = [id \in {1, 2} |->
                    IF id = 1
                    THEN [name |-> "T75", area_cm2 |-> IntToFloat(75),
                          cells_at_100_confluency |-> IntToFloat(10000000)]
                    ELSE [name |-> "T25", area_cm2 |-> IntToFloat(25),
                          cells_at_100_confluency |-> IntToFloat(2800000)]]
    /\ cell_lines = [id \in {1, 2, 3, 4} |->
                    CASE id = 1 -> [doubling_time_min_hours |-> PyFloat(IntToFloat(20)),
                                    doubling_time_max_hours |-> PyFloat(IntToFloat(28))]
                      [] id = 2 -> [doubling_time_min_hours |-> None,
                                    doubling_time_max_hours |-> None]
                      [] id = 3 -> [doubling_time_min_hours |-> PyFloat(Zero(0)),
                                    doubling_time_max_hours |-> PyFloat(IntToFloat(48))]
                      [] id = 4 -> [doubling_time_min_hours |-> PyFloat(IntToFloat(-12)),
                                    doubling_time_max_hours |-> None]]
    /\ cultures = [id \in {1, 2, 3, 4} |-> [cell_line_id |-> id]]

Init ==
    /\ InitDb
    /\ pc = "idle"
    /\ request = NoRequest
    /\ response = NoResponse
    /\ arg = None
    /\ result = Pending
    /\ called = NotCalled
    /\ InitWeb

\* a POST to /api/calc-seeding arrives and its JSON body is read
Receive ==
    /\ pc = "idle"
    /\ \E payload \in Requests : request' = payload
    /\ pc' = "calc"
    /\ UNCHANGED <<db, response, arg, result, called, web>>

\* a slip that rewrites a culture while answering
CalculateSeedingStoring ==
    /\ pc = "calc"
    /\ response' = calculate_seeding(request)
    /\ pc' = "done"
    /\ cultures' = [cultures EXCEPT ![1] = [cell_line_id |-> 2]]
    /\ UNCHANGED <<vessels, cell_lines, request, arg, result, called, web>>

\* calculate_seeding answers the request
CalculateSeeding ==
    /\ pc = "calc"
    /\ response' = calculate_seeding(request)
    /\ pc' = "done"
    /\ UNCHANGED <<db, request, arg, result, called, web>>

\* the response is sent and the request context is torn down
Teardown ==
    /\ pc = "done"
    /\ pc' = "idle"
    /\ request' = NoRequest
    /\ response' = NoResponse
    /\ UNCHANGED <<db, arg, result, called, web>>

Next == Receive \/ CalculateSeeding \/ Teardown

Spec == Init /\ [][Next]_vars

\* ------------------------------------------------------------------------
\* The parsing helpers on their own
\* ------------------------------------------------------------------------

NumberTexts ==
    {"5", "500", "500000", "999999", "1000000", "2000000", "0.5", "1e3", "2.5E7",
     "1,200", "-3", "nan", "abc", ""}

SuffixTexts == {"", "M", "m", " M", "K", "B", " cells", " cell", "cells", " Cells", "M cells"}

ParseInputs ==
    { PyStr(n \o s) : n \in NumberTexts, s \in SuffixTexts }
        \cup {PyInt(5), PyInt(500000), PyInt(1000000), PyInt(2000000), Num("0.5"),
              Num("1e6"), PyFloat(NaN), None}

InitParse ==
    /\ InitDb
    /\ pc = "idle"
    /\ request = NoRequest
    /\ response = NoResponse
    /\ arg \in ParseInputs
    /\ result = Pending
    /\ called = NotCalled
    /\ InitWeb

\* parse_millions is called on the argument
ParseMillions ==
    /\ result = Pending
    /\ result' = parse_millions(arg)
    /\ UNCHANGED <<db, pc, request, response, arg, called, web>>

NextParse == ParseMillions

SpecParse == InitParse /\ [][NextParse]_vars

\* ------------------------------------------------------------------------
\* parse_numeric and the display formatters on their own
\* ------------------------------------------------------------------------

\* what reaches parse_numeric from forms and JSON bodies
NumericInputs ==
    { PyStr(s) : s \in {"", "  ", "abc", "1,200", "2.5K", "3M", "1B", "300E3", "-3",
                        "nan", "-nan", "inf", "-inf", "Infinity", "1e999", "-0", "0",
                        "K", ",", "1e", "12 000", "0x10", "1_000", "+7", ".5", "5."} }
        \cup {None, PyBool(TRUE), PyBool(FALSE), PyInt(0), PyInt(5), PyInt(-5),
              PyInt(2000000), PyLong(BPow10(30)), PyLong(BPow10(400))}

\* the numbers the templates and the export hand to the formatters, and to
\* parse_numeric as JSON numbers
FloatInputs ==
    { Num(s) : s \in {"0", "-0.0", "0.005", "0.01", "0.009999", "0.0099951", "0.00123",
                      "1e-7", "0.125", "0.5", "-0.004", "-2.5", "2.5", "5", "9.96",
                      "99.5", "999", "999.5", "999.9999999999999", "1000", "1234.5",
                      "-1500", "999999", "999999.999", "1500000", "12345678", "1e9",
                      "2.5e9", "1e23"} }
        \cup {PyFloat(NaN), PyFloat(Inf(0)), PyFloat(Inf(1))}

InitHelpers ==
    /\ InitDb
    /\ pc = "idle"
    /\ request = NoRequest
    /\ response = NoResponse
    /\ arg \in NumericInputs \cup FloatInputs
    /\ result = Pending
    /\ called = NotCalled
    /\ InitWeb

\* parse_numeric is called on the argument
ParseNumeric ==
    /\ result = Pending
    /\ result' = parse_numeric(arg)
    /\ called' = [fn |-> "parse_numeric", digits |-> 0]
    /\ UNCHANGED <<db, pc, request, response, arg, web>>

\* format_cells is called on a number or None
FormatCells ==
    /\ result = Pending
    /\ arg.t \in {"None", "float"}
    /\ result' = format_cells(arg)
    /\ called' = [fn |-> "format_cells", digits |-> 0]
    /\ UNCHANGED <<db, pc, request, response, arg, web>>

\* format_volume is called on a number or None
FormatVolume ==
    /\ result = Pending
    /\ arg.t \in {"None", "float"}
    /\ result' = format_volume(arg)
    /\ called' = [fn |-> "format_volume", digits |-> 0]
    /\ UNCHANGED <<db, pc, request, response, arg, web>>

\* the digits format_significant is called with: 2 in the export, 3 on the
\* culture page
SignificantDigits == {1, 2, 3}

\* what math.floor(math.log10(abs(value))) may give where it is reached
OrdersOf(value) ==
    IF value.t = "float" /\ value.f.k = "fin" /\ ~IsZero(value.f)
    THEN Log10Floors(FAbs(value.f), Order10(FAbs(value.f)))
    ELSE {0}

\* format_significant is called on a number or None
FormatSignificant ==
    /\ result = Pending
    /\ arg.t \in {"None", "float"}
    /\ \E digits \in SignificantDigits, order \in OrdersOf(arg) :
          /\ result' = format_significant(arg, digits, order)
          /\ called' = [fn |-> "format_significant", digits |-> digits]
    /\ UNCHANGED <<db, pc, request, response, arg, web>>

NextHelpers == ParseNumeric \/ FormatCells \/ FormatVolume \/ FormatSignificant

SpecHelpers == InitHelpers /\ [][NextHelpers]_vars

\* ------------------------------------------------------------------------
\* cellSplitter's pages: signup, login, logout, the dashboard and the
\* culture pages.  A password hash is modelled by the password it verifies.
\* ------------------------------------------------------------------------

MaxUsers == 2

MaxCultures == 2

EmailInputs == {"user1@test.com", "user2@test.com", " User1@Test.com ", ""}

PasswordInputs == {"password1", "short", ""}

\* the names the isolation scripts give to cultures, in alphabetical order:
\* "Culture-User<i>" is what the user with id i creates
CultureNames == <<"Culture-Nobody", "Culture-User1", "Culture-User2">>

\* the place of a name in the alphabet
NameRank(name) == CHOOSE i \in DOMAIN CultureNames : CultureNames[i] = name

\* User.query.filter_by(email=email).first(): an id, 0 for None
UserByEmail(table, email) ==
    IF \E id \in DOMAIN table : table[id].email = email
    THEN CHOOSE id \in DOMAIN table :
            table[id].email = email /\ \A j \in DOMAIN table : table[j].email = email => id <= j
    ELSE 0

\* a request of a browser
Visit(route, browser, id) == [route |-> route, browser |-> browser, id |-> id]

Redirect(to) == [status |-> 302, body |-> <<to>>]

Page(status, body) == [status |-> status, body |-> body]

\* the id a new row gets: one more than the greatest id in the table
NextId(table) ==
    IF DOMAIN table = {} THEN 1
    ELSE 1 + CHOOSE m \in DOMAIN table : \A id \in DOMAIN table : id <= m

\* the ids of a table, ordered by name and then by id
ByName(table) ==
    CHOOSE s \in [1..Cardinality(DOMAIN table) -> DOMAIN table] :
        \A i, j \in 1..Cardinality(DOMAIN table) :
            i < j => \/ NameRank(table[s[i]].name) < NameRank(table[s[j]].name)
                     \/ /\ table[s[i]].name = table[s[j]].name
                        /\ s[i] < s[j]

InitPages ==
    /\ vessels = [id \in {1} |-> [name |-> "T75", area_cm2 |-> IntToFloat(75),
                                  cells_at_100_confluency |-> IntToFloat(10000000)]]
    /\ cell_lines = [id \in {1} |-> [doubling_time_min_hours |-> None,
                                     doubling_time_max_hours |-> None]]
    /\ cultures = <<>>
    /\ pc = "idle"
    /\ request = NoRequest
    /\ response = NoResponse
    /\ arg = None
    /\ result = Pending
    /\ called = NotCalled
    /\ InitWeb

\* what no page of cellSplitter touches
aside ==
    <<vessels, cell_lines, pc, arg, result, called, accounts, entries, login, now, outbox,
      failed_login_tracker, since>>

\* email.strip().lower() of each email posted
Normalised == [email \in EmailInputs |-> Lower(Strip(email))]

\* POST /signup
Signup ==
    /\ Len(users) < MaxUsers
    /\ \E b \in Browsers, email \in EmailInputs, password, confirm_password \in PasswordInputs :
          /\ request' = Visit("/signup", b, 0)
          /\ IF session[b] # 0
             THEN response' = Redirect("index") /\ UNCHANGED users
             ELSE IF \/ Normalised[email] = "" \/ password = ""
                     \/ password # confirm_password
                     \/ Len(password) < 8
                     \/ UserByEmail(users, Normalised[email]) # 0
             THEN response' = Page(200, <<"signup.html">>) /\ UNCHANGED users
             ELSE /\ users' = Append(users, [email |-> Normalised[email],
                                             password_hash |-> password])
                  /\ response' = Redirect("login")
    /\ UNCHANGED <<aside, cultures, passages, session>>

\* what POST /login makes of the session of browser b
LoggedIn(b, id, password) ==
    IF session[b] = 0 /\ password # "" /\ id # 0 /\ users[id].password_hash = password
    THEN [session EXCEPT ![b] = id]
    ELSE session

\* POST /login
Login ==
    /\ \E b \in Browsers, email \in EmailInputs, password \in PasswordInputs :
          /\ request' = Visit("/login", b, 0)
          /\ session' = LoggedIn(b, UserByEmail(users, Normalised[email]), password)
          /\ response' = IF session[b] # 0 THEN Redirect("index")
                         ELSE IF session'[b] # 0 THEN Redirect("index")
                         ELSE Page(200, <<"login.html">>)
    /\ UNCHANGED <<aside, cultures, passages, users>>

\* POST /logout
Logout ==
    /\ \E b \in Browsers :
          /\ request' = Visit("/logout", b, 0)
          /\ session' = [session EXCEPT ![b] = 0]
          /\ response' = Redirect("index")
    /\ UNCHANGED <<aside, cultures, passages, users>>

MaxPassages == 3

\* the texts typed as the number of the first passage
NumberInputs == {"", "0", "2"}

MYCO_STATUS_UNTESTED == "myco_untested"

MYCO_STATUS_TESTED == "myco_tested"

MYCO_STATUS_FREE == "myco_free"

MYCO_STATUS_CONTAMINATED == "myco_contaminated"

\* the keys of MYCO_STATUS_CHOICES
valid_statuses == {MYCO_STATUS_UNTESTED, MYCO_STATUS_FREE, MYCO_STATUS_CONTAMINATED}

\* a new row of table culture: active, nothing measured. Of its columns the
\* model keeps the name, the cell line, ended_on and the measured
\* concentration.
Culture(name, cell_line_id) ==
    [name |-> name, cell_line_id |-> cell_line_id, ended_on |-> None,
     measured_cell_concentration |-> None]

\* a new row of table passage: unlocked, no yield measured. Of its columns
\* the model keeps the culture, the number, the Myco status with its lock and
\* the measured yield.
Passage(culture_id, passage_number, myco_status) ==
    [culture_id |-> culture_id, passage_number |-> passage_number,
     myco_status |-> myco_status, myco_status_locked |-> FALSE,
     measured_yield_cells |-> None]

\* db.session.add of a row: the table with the row under the next id
Added(table, row) ==
    [id \in DOMAIN table \cup {NextId(table)} |->
        IF id \in DOMAIN table THEN table[id] ELSE row]

\* create_culture: initial_passage_number of the form, 1 unless it is an
\* integer of at least 1
InitialNumber(passage_number_raw) ==
    IF passage_number_raw = "" THEN 1
    ELSE IF IsRaise(StrToInt(passage_number_raw)) THEN 1
    ELSE IF StrToInt(passage_number_raw).n >= 1 THEN StrToInt(passage_number_raw).n
    ELSE 1

\* POST /culture: the name is the one the scripts give for the user logged in
CreateCulture ==
    /\ NextId(cultures) <= MaxCultures
    /\ NextId(passages) <= MaxPassages
    /\ \E b \in Browsers, cell_line_id \in {"", "x", "1", "9"}, number \in NumberInputs :
       \E name \in {"", CultureNames[session[b] + 1]} :
          /\ request' = Visit("/culture", b, 0)
          /\ IF \/ Strip(name) = "" \/ cell_line_id = ""
                \/ IsRaise(StrToInt(cell_line_id))
                \/ StrToInt(cell_line_id).n \notin DOMAIN cell_lines
             THEN response' = Redirect("index") /\ UNCHANGED <<cultures, passages>>
             ELSE /\ cultures' = Added(cultures,
                                       Culture(Strip(name), StrToInt(cell_line_id).n))
                  /\ passages' = Added(passages,
                                       Passage(NextId(cultures), InitialNumber(number),
                                               MYCO_STATUS_UNTESTED))
                  /\ response' = Redirect("view_culture")
    /\ UNCHANGED <<aside, users, session>>

\* GET /: the dashboard lists every culture, the active and the ended ones
Index ==
    /\ \E b \in Browsers :
          /\ request' = Visit("/", b, 0)
          /\ response' = IF session[b] = 0 THEN Redirect("login")
                         ELSE Page(200, [i \in 1..Cardinality(DOMAIN cultures) |->
                                            cultures[ByName(cultures)[i]].name])
    /\ UNCHANGED <<aside, cultures, passages, users, session>>

\* GET /culture/<culture_id>
ViewCulture ==
    /\ \E b \in Browsers, culture_id \in 1..MaxCultures :
          /\ request' = Visit("/culture/<id>", b, culture_id)
          /\ response' = IF culture_id \in DOMAIN cultures
                         THEN Page(200, <<cultures[culture_id].name>>)
                         ELSE Page(404, <<>>)
    /\ UNCHANGED <<aside, cultures, passages, users, session>>

NextPages == Signup \/ Login \/ Logout \/ CreateCulture \/ Index \/ ViewCulture

SpecPages == InitPages /\ [][NextPages]_vars

\* ------------------------------------------------------------------------
\* The journal application: accounts, sessions and journal entries.
\* A password hash is modelled by the password it verifies, a security
\* answer hash by the normalised answer.  Requests pass the CSRF check, as
\* under TestingConfig.  The failed-login tracker only numbers the message
\* of a 401 and is left out.
\* ------------------------------------------------------------------------

MaxEntries == 2

\* the JSON bodies posted to /auth/signup: two complete ones, one whose email
\* differs from the first in case and blanks only, and two with an empty field
SignupPayloads ==
    {[email |-> e, password |-> p, security_question |-> q, security_answer |-> a] :
        e \in {"user1@test.com"}, p \in {"password1", ""},
        q \in {"Favorite color?"}, a \in {" Blue ", ""}}
    \cup
    {[email |-> e, password |-> "password1", security_question |-> "Favorite color?",
      security_answer |-> " Blue "] : e \in {"user2@test.com", " User1@Test.com "}}

\* the JSON bodies posted to /auth/login
LoginPayloads ==
    {[email |-> "user1@test.com", password |-> "password1"],
     [email |-> " User1@Test.com ", password |-> "short"],
     [email |-> "user2@test.com", password |-> "password1"],
     [email |-> "", password |-> ""]}

\* the JSON bodies posted to /journals/
CreatePayloads ==
    {[title |-> "Title", content |-> "Text"], [title |-> "Title", content |-> ""],
     [title |-> "", content |-> "Text"]}

\* the JSON bodies put to /journals/<entry_id>
UpdatePayloads ==
    {[title |-> "Edited", content |-> "More"], [title |-> "", content |-> ""]}

\* the security answers typed at signup and at a reset
AnswerInputs == {" Blue ", "BLUE ", "red", ""}

\* answer.strip().lower() of each answer typed
NormalisedAnswer == [answer \in AnswerInputs |-> Lower(Strip(answer))]

\* a JSON request to the journal application
Sent(method, route, browser, id) ==
    [method |-> method, route |-> route, browser |-> browser, id |-> id]

\* what the journal application does not touch
beside ==
    <<vessels, cell_lines, cultures, passages, pc, arg, result, called, users, session>>

\* POST /auth/signup
JournalSignup ==
    /\ Len(accounts) < MaxUsers
    /\ \E payload \in SignupPayloads :
          /\ request' = Sent("POST", "/auth/signup", "", 0)
          /\ IF \/ payload.email = "" \/ payload.password = ""
                \/ payload.security_question = "" \/ payload.security_answer = ""
                \/ UserByEmail(accounts, Normalised[payload.email]) # 0
             THEN response' = Page(400, <<>>) /\ UNCHANGED accounts
             ELSE /\ accounts' =
                        Append(accounts,
                               [email |-> Normalised[payload.email],
                                password_hash |-> payload.password,
                                security_answer_hash |->
                                    NormalisedAnswer[payload.security_answer]])
                  /\ response' = Page(201, <<>>)
    /\ UNCHANGED <<beside, failed_login_tracker, since, entries, login, now, outbox>>

\* user.check_password(password) of the account with this id, 0 for no account
check_password(id, password) == id # 0 /\ accounts[id].password_hash = password

\* the history after the user with this id has done this: it is noted for
\* each of that user's reset tokens
Noted(user_id, event) ==
    [token \in DOMAIN since |->
        IF token.user_id = user_id THEN since[token] \cup {event} ELSE since[token]]

\* the history after this token has reset the password of its user
Used(token) ==
    [other \in DOMAIN since |->
        IF other = token
        THEN since[other] \cup {IF "used" \in since[other] THEN "used again" ELSE "used"}
        ELSE IF other.user_id = token.user_id THEN since[other] \cup {"changed"}
        ELSE since[other]]

\* how many failed attempts the tracker has on its books at once
MaxAttempts == 2

\* request.remote_addr, the same for every browser
remote_addr == "127.0.0.1"

\* FailedLoginTracker.get_attempts: _data is a defaultdict(int)
get_attempts(tracker, key) == IF key \in DOMAIN tracker THEN tracker[key] ELSE 0

\* FailedLoginTracker.increment
increment(tracker, key) ==
    [k \in DOMAIN tracker \cup {key} |->
        IF k = key THEN get_attempts(tracker, key) + 1 ELSE tracker[k]]

\* FailedLoginTracker.reset that keeps the count
reset_nothing(tracker, key) == tracker

\* FailedLoginTracker.reset: del self._data[key]
reset(tracker, key) == [k \in DOMAIN tracker \ {key} |-> tracker[k]]

\* all the failed attempts on the tracker's books
RECURSIVE Booked(_)
Booked(tracker) ==
    IF DOMAIN tracker = {} THEN 0
    ELSE tracker[CHOOSE k \in DOMAIN tracker : TRUE]
         + Booked([k \in DOMAIN tracker \ {CHOOSE j \in DOMAIN tracker : TRUE} |-> tracker[k]])

\* POST /auth/login
JournalLogin ==
    /\ \E b \in Browsers, payload \in LoginPayloads :
          /\ request' = [method |-> "POST", route |-> "/auth/login", browser |-> b,
                          json |-> payload]
          /\ IF check_password(UserByEmail(accounts, Normalised[payload.email]),
                               payload.password)
             THEN /\ login' = [login EXCEPT
                                  ![b] = UserByEmail(accounts, Normalised[payload.email])]
                  /\ failed_login_tracker' =
                        reset(failed_login_tracker, Normalised[payload.email])
                  /\ since' = Noted(UserByEmail(accounts, Normalised[payload.email]),
                                    "login")
                  /\ response' = Page(200, <<>>)
             ELSE /\ Booked(failed_login_tracker) < MaxAttempts
                  /\ failed_login_tracker' =
                        increment(failed_login_tracker,
                                  IF Normalised[payload.email] # ""
                                  THEN Normalised[payload.email] ELSE remote_addr)
                  /\ response' = Page(401, <<>>)
                  /\ UNCHANGED <<login, since>>
    /\ UNCHANGED <<beside, accounts, entries, now, outbox>>

\* POST /auth/logout leaving the user in the session
JournalLogoutStaying ==
    /\ \E b \in Browsers :
          /\ request' = Sent("POST", "/auth/logout", b, 0)
          /\ response' = IF login[b] = 0 THEN Page(401, <<>>) ELSE Page(200, <<>>)
    /\ UNCHANGED <<beside, failed_login_tracker, since, accounts, entries, login, now,
                   outbox>>

\* POST /auth/logout
JournalLogout ==
    /\ \E b \in Browsers :
          /\ request' = Sent("POST", "/auth/logout", b, 0)
          /\ IF login[b] = 0
             THEN response' = Page(401, <<>>) /\ UNCHANGED login
             ELSE /\ login' = [login EXCEPT ![b] = 0]
                  /\ response' = Page(200, <<>>)
    /\ UNCHANGED <<beside, failed_login_tracker, since, accounts, entries, now, outbox>>

\* the ids of all rows, JournalEntry.query with no filter
EntriesOfAnyone(table, user_id) == DOMAIN table

\* the ids of the rows of user_id, JournalEntry.query.filter_by(user_id=...)
EntriesOf(table, user_id) == {id \in DOMAIN table : table[id].user_id = user_id}

\* order_by(JournalEntry.created_at.desc()): a later entry has a greater id
Newest(ids) ==
    CHOOSE s \in [1..Cardinality(ids) -> ids] :
        \A i, j \in 1..Cardinality(ids) : i < j => s[i] > s[j]

\* what GET /journals/ shows of an entry
Shown(table, id) ==
    [id |-> id, title |-> table[id].title, content |-> table[id].content]

\* GET /journals/
list_entries ==
    /\ \E b \in Browsers :
          /\ request' = Sent("GET", "/journals/", b, 0)
          /\ response' =
                IF login[b] = 0 THEN Page(401, <<>>)
                ELSE Page(200, [i \in 1..Cardinality(EntriesOf(entries, login[b])) |->
                                   Shown(entries, Newest(EntriesOf(entries, login[b]))[i])])
    /\ UNCHANGED <<beside, failed_login_tracker, since, accounts, entries, login, now, outbox>>

\* POST /journals/
create_entry ==
    /\ NextId(entries) <= MaxEntries
    /\ \E b \in Browsers, payload \in CreatePayloads :
          /\ request' = Sent("POST", "/journals/", b, 0)
          /\ IF login[b] = 0
             THEN response' = Page(401, <<>>) /\ UNCHANGED entries
             ELSE IF payload.title = "" \/ payload.content = ""
             THEN response' = Page(400, <<>>) /\ UNCHANGED entries
             ELSE /\ entries' = [id \in DOMAIN entries \cup {NextId(entries)} |->
                                    IF id \in DOMAIN entries THEN entries[id]
                                    ELSE [user_id |-> login[b], title |-> payload.title,
                                          content |-> payload.content]]
                  /\ response' = Page(201, <<NextId(entries)>>)
    /\ UNCHANGED <<beside, failed_login_tracker, since, accounts, login, now, outbox>>

\* the wrapper of owner_required for any row, whoever owns it
owner_not_required(table, user_id, entry_id) == entry_id \in DOMAIN table

\* the wrapper of owner_required: the row with this id and this user_id is
\* found
owner_required(table, user_id, entry_id) ==
    entry_id \in DOMAIN table /\ table[entry_id].user_id = user_id

\* GET /journals/<entry_id>
get_entry ==
    /\ \E b \in Browsers, entry_id \in 1..MaxEntries :
          /\ request' = Sent("GET", "/journals/<id>", b, entry_id)
          /\ response' =
                IF login[b] = 0 THEN Page(401, <<>>)
                ELSE IF ~owner_required(entries, login[b], entry_id) THEN Page(403, <<>>)
                ELSE Page(200, <<Shown(entries, entry_id)>>)
    /\ UNCHANGED <<beside, failed_login_tracker, since, accounts, entries, login, now, outbox>>

\* the row after update_entry: "if title:", "if content:"
Updated(entry, title, content) ==
    [entry EXCEPT !.title = IF title # "" THEN title ELSE @,
                  !.content = IF content # "" THEN content ELSE @]

\* PUT /journals/<entry_id>
update_entry ==
    /\ \E b \in Browsers, entry_id \in 1..MaxEntries, payload \in UpdatePayloads :
          /\ request' = Sent("PUT", "/journals/<id>", b, entry_id)
          /\ IF login[b] = 0
             THEN response' = Page(401, <<>>) /\ UNCHANGED entries
             ELSE IF ~owner_required(entries, login[b], entry_id)
             THEN response' = Page(403, <<>>) /\ UNCHANGED entries
             ELSE /\ entries' = [entries EXCEPT
                                    ![entry_id] = Updated(@, payload.title, payload.content)]
                  /\ response' = Page(200, <<>>)
    /\ UNCHANGED <<beside, failed_login_tracker, since, accounts, login, now, outbox>>

\* DELETE /journals/<entry_id>
delete_entry ==
    /\ \E b \in Browsers, entry_id \in 1..MaxEntries :
          /\ request' = Sent("DELETE", "/journals/<id>", b, entry_id)
          /\ IF login[b] = 0
             THEN response' = Page(401, <<>>) /\ UNCHANGED entries
             ELSE IF ~owner_required(entries, login[b], entry_id)
             THEN response' = Page(403, <<>>) /\ UNCHANGED entries
             ELSE /\ entries' = [id \in DOMAIN entries \ {entry_id} |-> entries[id]]
                  /\ response' = Page(204, <<>>)
    /\ UNCHANGED <<beside, failed_login_tracker, since, accounts, login, now, outbox>>

NextJournal ==
    \/ JournalSignup \/ JournalLogin \/ JournalLogout
    \/ list_entries \/ create_entry \/ get_entry \/ update_entry \/ delete_entry

SpecJournal == InitPages /\ [][NextJournal]_vars

\* ------------------------------------------------------------------------
\* The journal application: resetting a password.  A reset token is
\* modelled by what its serializer signed, the user id and the second it was
\* issued in, and by whether its signature is the serializer's.
\* ------------------------------------------------------------------------

PASSWORD_RESET_TOKEN_MAX_AGE == 3600

\* how many seconds past the start, and past the maximum age of a token
\* issued at the start, the clock runs
MaxLate == 1

\* how many reset mails are sent
MaxMails == 1

\* the JSON bodies posted to /auth/reset-with-security
ResetPayloads ==
    {[email |-> "user1@test.com", security_answer |-> "BLUE ", password |-> "short"],
     [email |-> "user1@test.com", security_answer |-> "red", password |-> "short"],
     [email |-> "user2@test.com", security_answer |-> "BLUE ", password |-> "short"],
     [email |-> "user1@test.com", security_answer |-> "BLUE ", password |-> ""],
     [email |-> "user1@test.com", security_answer |-> "", password |-> "short"],
     [email |-> "", security_answer |-> "BLUE ", password |-> "short"]}

\* User.generate_reset_token at this second
generate_reset_token(user_id, at) == [user_id |-> user_id, issued |-> at, signed |-> TRUE]

\* the tokens somebody without the secret key can make up
Forged(at) == {[user_id |-> id, issued |-> at, signed |-> FALSE] : id \in 1..MaxUsers}

\* User.verify_reset_token with no regard to the age of the token
verify_reset_token_of_any_age(table, token, at) ==
    IF ~token.signed THEN 0
    ELSE IF token.user_id \notin DOMAIN table THEN 0
    ELSE token.user_id

\* User.verify_reset_token at this second: the id of the user, 0 for None
verify_reset_token(table, token, at) ==
    IF ~token.signed THEN 0
    ELSE IF at - token.issued > PASSWORD_RESET_TOKEN_MAX_AGE THEN 0
    ELSE IF token.user_id \notin DOMAIN table THEN 0
    ELSE token.user_id

\* User.set_password on every account
set_password_of_all(table, id, password) ==
    [i \in DOMAIN table |-> [table[i] EXCEPT !.password_hash = password]]

\* the accounts after User.set_password of the account with this id
set_password(table, id, password) ==
    [table EXCEPT ![id].password_hash = password]

\* a second or a token's maximum age passes; no request is answered
\* meanwhile
Tick ==
    /\ \E seconds \in {1, PASSWORD_RESET_TOKEN_MAX_AGE} :
          /\ now + seconds <= PASSWORD_RESET_TOKEN_MAX_AGE + MaxLate
          /\ (now + seconds) % PASSWORD_RESET_TOKEN_MAX_AGE <= MaxLate
          /\ now' = now + seconds
    /\ request' = NoRequest
    /\ response' = NoResponse
    /\ UNCHANGED <<beside, failed_login_tracker, since, accounts, entries, login, outbox>>

\* POST /auth/request-reset
request_reset ==
    /\ Cardinality(outbox) < MaxMails
    /\ \E email \in EmailInputs :
          /\ request' = [method |-> "POST", route |-> "/auth/request-reset",
                          json |-> [email |-> email]]
          /\ IF Normalised[email] = ""
             THEN response' = Page(400, <<>>) /\ UNCHANGED <<outbox, since>>
             ELSE IF UserByEmail(accounts, Normalised[email]) = 0
             THEN /\ response' = Page(200, <<"If the account exists, a reset email was sent.">>)
                  /\ UNCHANGED <<outbox, since>>
             ELSE /\ outbox' = outbox \cup
                        {generate_reset_token(UserByEmail(accounts, Normalised[email]), now)}
                  /\ since' = [token \in outbox' |->
                                  IF token \in outbox THEN since[token] ELSE {}]
                  /\ response' = Page(200, <<"Reset instructions sent">>)
    /\ UNCHANGED <<beside, failed_login_tracker, accounts, entries, login, now>>

\* a request that carries a reset token
SentToken(method, token, password) ==
    [method |-> method, route |-> "/auth/reset/<token>", token |-> token,
     password |-> password]

\* GET /auth/reset/<token>
get_reset_form ==
    /\ \E token \in outbox \cup Forged(now) :
          /\ request' = SentToken("GET", token, "")
          /\ response' = IF verify_reset_token(accounts, token, now) = 0
                         THEN Page(400, <<>>)
                         ELSE Page(200, <<>>)
    /\ UNCHANGED <<beside, failed_login_tracker, since, accounts, entries, login, now, outbox>>

\* POST /auth/reset/<token> refusing a token that has reset a password before
reset_password_once ==
    /\ \E token \in outbox \cup Forged(now), password \in PasswordInputs :
          /\ request' = SentToken("POST", token, password)
          /\ IF \/ verify_reset_token(accounts, token, now) = 0 \/ password = ""
                \/ "used" \in since[token]
             THEN response' = Page(400, <<>>) /\ UNCHANGED <<accounts, since>>
             ELSE /\ accounts' = set_password(accounts,
                                              verify_reset_token(accounts, token, now),
                                              password)
                  /\ since' = Used(token)
                  /\ response' = Page(200, <<>>)
    /\ UNCHANGED <<beside, failed_login_tracker, entries, login, now, outbox>>

\* POST /auth/reset/<token>
reset_password ==
    /\ \E token \in outbox \cup Forged(now), password \in PasswordInputs :
          /\ request' = SentToken("POST", token, password)
          /\ IF verify_reset_token(accounts, token, now) = 0 \/ password = ""
             THEN response' = Page(400, <<>>) /\ UNCHANGED <<accounts, since>>
             ELSE /\ accounts' = set_password(accounts,
                                              verify_reset_token(accounts, token, now),
                                              password)
                  /\ since' = Used(token)
                  /\ response' = Page(200, <<>>)
    /\ UNCHANGED <<beside, failed_login_tracker, entries, login, now, outbox>>

\* User.verify_security_answer comparing the answer as it was typed
verify_security_answer_as_typed(id, answer) ==
    id # 0 /\ accounts[id].security_answer_hash = answer

\* User.verify_security_answer of the account with this id, 0 for no account
verify_security_answer(id, answer) ==
    id # 0 /\ accounts[id].security_answer_hash = NormalisedAnswer[answer]

\* POST /auth/reset-with-security
reset_with_security_answer ==
    /\ \E payload \in ResetPayloads :
          /\ request' = [method |-> "POST", route |-> "/auth/reset-with-security",
                          json |-> payload]
          /\ IF \/ Normalised[payload.email] = "" \/ payload.security_answer = ""
                \/ payload.password = ""
             THEN response' = Page(400, <<>>) /\ UNCHANGED <<accounts, since>>
             ELSE IF ~verify_security_answer(UserByEmail(accounts, Normalised[payload.email]),
                                             payload.security_answer)
             THEN response' = Page(403, <<>>) /\ UNCHANGED <<accounts, since>>
             ELSE /\ accounts' = set_password(accounts,
                                              UserByEmail(accounts, Normalised[payload.email]),
                                              payload.password)
                  /\ since' = Noted(UserByEmail(accounts, Normalised[payload.email]),
                                    "changed")
                  /\ response' = Page(200, <<>>)
    /\ UNCHANGED <<beside, failed_login_tracker, entries, login, now, outbox>>

NextReset ==
    \/ JournalSignup \/ Tick \/ request_reset \/ get_reset_form
    \/ reset_password \/ reset_with_security_answer

SpecReset == InitPages /\ [][NextReset]_vars

\* resetting a password and logging in between, all within one second
NextReuse ==
    \/ JournalSignup \/ JournalLogin \/ request_reset
    \/ reset_password \/ reset_with_security_answer

SpecReuse == InitPages /\ [][NextReuse]_vars

\* ------------------------------------------------------------------------
\* cellSplitter: cultures and their passages
\* ------------------------------------------------------------------------

MaxBatch == 2

\* date.today(), the date every form of the model leaves to parse_date
Today == [t |-> "date"]

\* a form posted to a route of cellSplitter that names a row
Posted(route, id, form) == [route |-> route, id |-> id, form |-> form]

\* redirect(...) after flash(message, category)
Flashed(to, category) == [status |-> 302, body |-> <<to, category>>]

\* the ids of the passages of a culture
PassagesOf(rows, culture_id) == {id \in DOMAIN rows : rows[id].culture_id = culture_id}

\* Culture.latest_passage: the id of the passage with the greatest number, 0
\* for None
latest_passage(rows, culture_id) ==
    IF PassagesOf(rows, culture_id) = {} THEN 0
    ELSE CHOOSE id \in PassagesOf(rows, culture_id) :
            \A other \in PassagesOf(rows, culture_id) :
                \/ rows[other].passage_number < rows[id].passage_number
                \/ rows[other].passage_number = rows[id].passage_number /\ other >= id

\* Culture.next_passage_number counting the passages instead
next_passage_number_by_count(rows, culture_id) ==
    Cardinality(PassagesOf(rows, culture_id)) + 1

\* Culture.next_passage_number
next_passage_number(rows, culture_id) ==
    IF latest_passage(rows, culture_id) = 0 THEN 1
    ELSE rows[latest_passage(rows, culture_id)].passage_number + 1

\* normalize_myco_status
normalize_myco_status(value) ==
    IF value = "" THEN MYCO_STATUS_UNTESTED
    ELSE IF value = MYCO_STATUS_TESTED THEN MYCO_STATUS_FREE
    ELSE IF value \in valid_statuses THEN value
    ELSE MYCO_STATUS_UNTESTED

\* add_passage without the look at ended_on
add_passage_to_ended ==
    /\ NextId(passages) <= MaxPassages
    /\ \E culture_id \in 1..MaxCultures, myco_status \in {"", MYCO_STATUS_TESTED} :
          /\ request' = Posted("/culture/<id>/add_passage", culture_id,
                               [myco_status |-> myco_status])
          /\ IF culture_id \notin DOMAIN cultures
             THEN response' = Page(404, <<>>) /\ UNCHANGED passages
             ELSE /\ passages' =
                        Added(passages,
                              Passage(culture_id, next_passage_number(passages, culture_id),
                                      IF myco_status \notin valid_statuses
                                      THEN MYCO_STATUS_UNTESTED
                                      ELSE normalize_myco_status(myco_status)))
                  /\ response' = Flashed("view_culture", "success")
    /\ UNCHANGED <<aside, cultures, users, session>>

\* POST /culture/<culture_id>/add_passage
add_passage ==
    /\ NextId(passages) <= MaxPassages
    /\ \E culture_id \in 1..MaxCultures, myco_status \in {"", MYCO_STATUS_TESTED} :
          /\ request' = Posted("/culture/<id>/add_passage", culture_id,
                               [myco_status |-> myco_status])
          /\ IF culture_id \notin DOMAIN cultures
             THEN response' = Page(404, <<>>) /\ UNCHANGED passages
             ELSE IF cultures[culture_id].ended_on # None
             THEN response' = Flashed("view_culture", "error") /\ UNCHANGED passages
             ELSE /\ passages' =
                        Added(passages,
                              Passage(culture_id, next_passage_number(passages, culture_id),
                                      IF myco_status \notin valid_statuses
                                      THEN MYCO_STATUS_UNTESTED
                                      ELSE normalize_myco_status(myco_status)))
                  /\ response' = Flashed("view_culture", "success")
    /\ UNCHANGED <<aside, cultures, users, session>>

\* the JSON bodies posted to /culture/<culture_id>/clone
ClonePayloads ==
    {[name |-> " Clone ", vessel_id |-> 1, seeded_cells |-> 100000],
     [name |-> " ", vessel_id |-> 1, seeded_cells |-> 100000],
     [name |-> "Clone", vessel_id |-> 9, seeded_cells |-> 100000],
     [name |-> "Clone", vessel_id |-> 1, seeded_cells |-> 0]}

\* POST /culture/<culture_id>/clone
clone_culture ==
    /\ NextId(cultures) <= MaxCultures
    /\ NextId(passages) <= MaxPassages
    /\ \E culture_id \in 1..MaxCultures, payload \in ClonePayloads :
          /\ request' = Posted("/culture/<id>/clone", culture_id, payload)
          /\ IF culture_id \notin DOMAIN cultures
             THEN response' = Page(404, <<>>) /\ UNCHANGED <<cultures, passages>>
             ELSE IF \/ latest_passage(passages, culture_id) = 0
                     \/ Strip(payload.name) = ""
                     \/ payload.vessel_id \notin DOMAIN vessels
                     \/ payload.seeded_cells <= 0
             THEN response' = Page(400, <<>>) /\ UNCHANGED <<cultures, passages>>
             ELSE /\ cultures' = Added(cultures,
                                       Culture(Strip(payload.name),
                                               cultures[culture_id].cell_line_id))
                  /\ passages' =
                        Added(passages,
                              Passage(NextId(cultures),
                                      passages[latest_passage(passages, culture_id)]
                                          .passage_number,
                                      MYCO_STATUS_UNTESTED))
                  /\ response' = Page(200, <<NextId(cultures)>>)
    /\ UNCHANGED <<aside, users, session>>

\* POST /culture/<culture_id>/end
end_culture ==
    /\ \E culture_id \in 1..MaxCultures :
          /\ request' = Posted("/culture/<id>/end", culture_id, <<>>)
          /\ IF culture_id \notin DOMAIN cultures
             THEN response' = Page(404, <<>>) /\ UNCHANGED cultures
             ELSE IF cultures[culture_id].ended_on # None
             THEN response' = Flashed("view_culture", "info") /\ UNCHANGED cultures
             ELSE /\ cultures' = [cultures EXCEPT ![culture_id].ended_on = Today]
                  /\ response' = Flashed("view_culture", "success")
    /\ UNCHANGED <<aside, passages, users, session>>

\* POST /culture/<culture_id>/reactivate
reactivate_culture ==
    /\ \E culture_id \in 1..MaxCultures :
          /\ request' = Posted("/culture/<id>/reactivate", culture_id, <<>>)
          /\ IF culture_id \notin DOMAIN cultures
             THEN response' = Page(404, <<>>) /\ UNCHANGED cultures
             ELSE IF cultures[culture_id].ended_on = None
             THEN response' = Flashed("view_culture", "info") /\ UNCHANGED cultures
             ELSE /\ cultures' = [cultures EXCEPT ![culture_id].ended_on = None]
                  /\ response' = Flashed("view_culture", "success")
    /\ UNCHANGED <<aside, passages, users, session>>

\* POST /culture/<culture_id>/myco
update_myco_status ==
    /\ \E culture_id \in 1..MaxCultures, status \in {"", MYCO_STATUS_CONTAMINATED} :
          /\ request' = Posted("/culture/<id>/myco", culture_id, [myco_status |-> status])
          /\ IF culture_id \notin DOMAIN cultures
             THEN response' = Page(404, <<>>) /\ UNCHANGED passages
             ELSE IF \/ status \notin valid_statuses
                     \/ latest_passage(passages, culture_id) = 0
                     \/ passages[latest_passage(passages, culture_id)].myco_status_locked
             THEN response' = Flashed("index", "error") /\ UNCHANGED passages
             ELSE /\ passages' =
                        [passages EXCEPT
                            ![latest_passage(passages, culture_id)].myco_status = status,
                            ![latest_passage(passages, culture_id)].myco_status_locked = TRUE]
                  /\ response' = Flashed("index", "success")
    /\ UNCHANGED <<aside, cultures, users, session>>

\* the cascade of Culture.passages that deletes nothing
delete_orphan_none(rows, culture_id) == rows

\* cascade="all, delete-orphan" of Culture.passages: the passages that stay
\* when a culture is deleted
delete_orphan(rows, culture_id) ==
    [id \in DOMAIN rows \ PassagesOf(rows, culture_id) |-> rows[id]]

\* POST /culture/<culture_id>/delete
delete_culture ==
    /\ \E culture_id \in 1..MaxCultures :
          /\ request' = Posted("/culture/<id>/delete", culture_id, <<>>)
          /\ IF culture_id \notin DOMAIN cultures
             THEN response' = Page(404, <<>>) /\ UNCHANGED <<cultures, passages>>
             ELSE IF cultures[culture_id].ended_on = None
             THEN /\ response' = Flashed("view_culture", "error")
                  /\ UNCHANGED <<cultures, passages>>
             ELSE /\ cultures' = [id \in DOMAIN cultures \ {culture_id} |-> cultures[id]]
                  /\ passages' = delete_orphan(passages, culture_id)
                  /\ response' = Flashed("index", "success")
    /\ UNCHANGED <<aside, users, session>>

\* /passage/<passage_id>/edit: GET shows the form, POST stores it
edit_passage ==
    /\ \E passage_id \in 1..MaxPassages, method \in {"GET", "POST"} :
       \E myco_status \in {"", MYCO_STATUS_FREE} :
          /\ request' = [route |-> "/passage/<id>/edit", id |-> passage_id,
                          method |-> method, form |-> [myco_status |-> myco_status]]
          /\ IF passage_id \notin DOMAIN passages
             THEN response' = Page(404, <<>>) /\ UNCHANGED passages
             ELSE IF method = "GET"
             THEN response' = Page(200, <<"edit_passage.html">>) /\ UNCHANGED passages
             ELSE /\ passages' =
                        [passages EXCEPT
                            ![passage_id].myco_status =
                                IF myco_status \in valid_statuses THEN myco_status ELSE @]
                  /\ response' = Flashed("view_culture", "success")
    /\ UNCHANGED <<aside, cultures, users, session>>

\* POST /passage/<passage_id>/delete
delete_passage ==
    /\ \E passage_id \in 1..MaxPassages :
          /\ request' = Posted("/passage/<id>/delete", passage_id, <<>>)
          /\ IF passage_id \notin DOMAIN passages
             THEN response' = Page(404, <<>>) /\ UNCHANGED passages
             ELSE /\ passages' = [id \in DOMAIN passages \ {passage_id} |-> passages[id]]
                  /\ response' = Flashed("view_culture", "success")
    /\ UNCHANGED <<aside, cultures, users, session>>

\* the entries posted to /api/bulk-passages, and the batches made of them
PassageEntries ==
    {[culture_id |-> PyInt(1), measured_viability_percent |-> None],
     [culture_id |-> PyInt(2), measured_viability_percent |-> None],
     [culture_id |-> PyStr("x"), measured_viability_percent |-> None],
     [culture_id |-> PyInt(1), measured_viability_percent |-> PyInt(150)]}

\* the entries posted to /api/bulk-harvest
HarvestEntries ==
    {[culture_id |-> PyInt(1), measured_cell_concentration |-> PyInt(500000),
      measured_slurry_volume_ml |-> PyInt(2)],
     [culture_id |-> PyInt(2), measured_cell_concentration |-> PyInt(500000),
      measured_slurry_volume_ml |-> PyInt(2)],
     [culture_id |-> PyInt(1), measured_cell_concentration |-> None,
      measured_slurry_volume_ml |-> PyInt(2)],
     [culture_id |-> PyInt(2), measured_cell_concentration |-> PyInt(500000),
      measured_slurry_volume_ml |-> PyInt(0)]}

\* the lists of one entry up to MaxBatch entries
Batches(of) == UNION {[1..n -> of] : n \in 1..MaxBatch}

\* int(culture_id) of an entry
CultureIdOf(entry) ==
    IF entry.culture_id.t = "int" THEN entry.culture_id
    ELSE StrToInt(entry.culture_id.text)

\* db.session.rollback() that keeps what the request has changed
rollback_nothing(committed, pending) == pending

\* db.session.rollback(): the table as it was committed last
rollback(committed, pending) == committed

\* an entry's viability, an integer in the model, is out of 0..100
ViabilityRefused(entry) ==
    /\ ~IsNone(entry.measured_viability_percent)
    /\ \/ entry.measured_viability_percent.n < 0
       \/ entry.measured_viability_percent.n > 100

\* passage_counters after an entry for this culture took this number
Counted(passage_counters, culture_id, passage_number) ==
    [id \in DOMAIN passage_counters \cup {culture_id} |->
        IF id = culture_id THEN passage_number + 1 ELSE passage_counters[id]]

\* the number create_bulk_passages gives the entry for this culture
BatchNumber(rows, passage_counters, culture_id) ==
    IF culture_id \in DOMAIN passage_counters THEN passage_counters[culture_id]
    ELSE next_passage_number(rows, culture_id)

\* the loop of create_bulk_passages over the entries left, with the passages
\* of the session and the counters so far: the status, and the table passage
\* afterwards
RECURSIVE BulkPassages(_, _, _)
BulkPassages(left, rows, passage_counters) ==
    IF left = <<>> THEN [status |-> 200, passages |-> rows]
    ELSE IF IsRaise(CultureIdOf(Head(left)))
    THEN [status |-> 400, passages |-> rollback(passages, rows)]
    ELSE IF CultureIdOf(Head(left)).n \notin DOMAIN cultures
    THEN [status |-> 404, passages |-> rollback(passages, rows)]
    ELSE IF cultures[CultureIdOf(Head(left)).n].ended_on # None
    THEN [status |-> 400, passages |-> rollback(passages, rows)]
    ELSE IF ViabilityRefused(Head(left))
    THEN [status |-> 400, passages |-> rollback(passages, rows)]
    ELSE BulkPassages(Tail(left),
                      Added(rows,
                            Passage(CultureIdOf(Head(left)).n,
                                    BatchNumber(rows, passage_counters,
                                                CultureIdOf(Head(left)).n),
                                    MYCO_STATUS_UNTESTED)),
                      Counted(passage_counters, CultureIdOf(Head(left)).n,
                              BatchNumber(rows, passage_counters,
                                          CultureIdOf(Head(left)).n)))

\* POST /api/bulk-passages
create_bulk_passages ==
    /\ \E entries_posted \in Batches(PassageEntries) \cup {<<>>} :
          /\ NextId(passages) + Len(entries_posted) - 1 <= MaxPassages
          /\ request' = [route |-> "/api/bulk-passages", entries |-> entries_posted]
          /\ IF entries_posted = <<>>
             THEN response' = Page(400, <<>>) /\ UNCHANGED passages
             ELSE /\ passages' = BulkPassages(entries_posted, passages, <<>>).passages
                  /\ response' = Page(BulkPassages(entries_posted, passages, <<>>).status,
                                      <<>>)
    /\ UNCHANGED <<aside, cultures, users, session>>

\* a measurement of an entry is missing or not above zero
MeasurementMissing(measured) == IsNone(measured) \/ measured.n <= 0

\* the passages after record_bulk_harvest stored the yield of an entry with
\* the latest passage of its culture, if there is one
Harvested(rows, culture_id, measured_yield_cells) ==
    IF latest_passage(rows, culture_id) = 0 THEN rows
    ELSE [rows EXCEPT ![latest_passage(rows, culture_id)].measured_yield_cells =
                          measured_yield_cells]

\* the loop of record_bulk_harvest over the entries left, with the cultures
\* and passages of the session: the status, and the two tables afterwards
RECURSIVE BulkHarvest(_, _, _)
BulkHarvest(left, table, rows) ==
    IF left = <<>> THEN [status |-> 200, cultures |-> table, passages |-> rows]
    ELSE IF IsRaise(CultureIdOf(Head(left)))
    THEN [status |-> 400, cultures |-> rollback(cultures, table),
          passages |-> rollback(passages, rows)]
    ELSE IF CultureIdOf(Head(left)).n \notin DOMAIN table
    THEN [status |-> 404, cultures |-> rollback(cultures, table),
          passages |-> rollback(passages, rows)]
    ELSE IF \/ table[CultureIdOf(Head(left)).n].ended_on # None
            \/ MeasurementMissing(Head(left).measured_cell_concentration)
            \/ MeasurementMissing(Head(left).measured_slurry_volume_ml)
    THEN [status |-> 400, cultures |-> rollback(cultures, table),
          passages |-> rollback(passages, rows)]
    ELSE BulkHarvest(Tail(left),
                     [table EXCEPT ![CultureIdOf(Head(left)).n].measured_cell_concentration =
                                       Head(left).measured_cell_concentration],
                     Harvested(rows, CultureIdOf(Head(left)).n,
                               PyInt(Head(left).measured_cell_concentration.n
                                     * Head(left).measured_slurry_volume_ml.n)))

\* POST /api/bulk-harvest
record_bulk_harvest ==
    /\ \E entries_posted \in Batches(HarvestEntries) \cup {<<>>} :
          /\ request' = [route |-> "/api/bulk-harvest", entries |-> entries_posted]
          /\ IF entries_posted = <<>>
             THEN response' = Page(400, <<>>) /\ UNCHANGED <<cultures, passages>>
             ELSE /\ cultures' = BulkHarvest(entries_posted, cultures, passages).cultures
                  /\ passages' = BulkHarvest(entries_posted, cultures, passages).passages
                  /\ response' = Page(BulkHarvest(entries_posted, cultures, passages).status,
                                      <<>>)
    /\ UNCHANGED <<aside, users, session>>

\* cultures from their creation to their deletion, and the passages logged
\* for them
NextCultures ==
    \/ CreateCulture \/ clone_culture \/ add_passage \/ create_bulk_passages
    \/ delete_passage \/ end_culture \/ reactivate_culture \/ delete_culture

SpecCultures == InitPages /\ [][NextCultures]_vars

\* the Myco status of the passages
NextMyco ==
    \/ CreateCulture \/ add_passage \/ update_myco_status \/ edit_passage
    \/ delete_passage

SpecMyco == InitPages /\ [][NextMyco]_vars

\* the two bulk endpoints
NextBulk ==
    \/ CreateCulture \/ end_culture \/ create_bulk_passages \/ record_bulk_harvest

SpecBulk == InitPages /\ [][NextBulk]_vars

Returned == result # Pending

Served == pc = "done"

Accepted == Served /\ response.status = 200

Rejected == Served /\ response.status # 200

\* ------------------------------------------------------------------------
\* Properties of the dilution planner
\* ------------------------------------------------------------------------

\* a number that was given, parsed, and is greater than zero
Positive(value) == value.t = "float" /\ FGt(value.f, Zero(0))

\* a number that is neither infinite nor NaN
Finite(value) == value.t = "float" /\ value.f.k = "fin"

\* the inputs of the request being served, as numbers
StartConcentration == parse_numeric(Get(request, "cell_concentration", None))

TotalVolume == parse_numeric(Get(request, "total_volume_ml", None))

CellsToSeed == parse_numeric(Get(request, "cells_to_seed", None))

VolumePerSeed == parse_numeric(Get(request, "volume_per_seed_ml", None))

IsDilution == request["mode"] = PyStr("dilution")

\* the request names an input mode that is a text, or none at all
InputModeIsText ==
    LET m == Get(request, "dilution_input_mode", None) IN m.t = "str" \/ ~Truthy(m)

CellsMode ==
    LET m == Get(request, "dilution_input_mode", None)
    IN  m.t = "str" /\ Lower(Strip(m.text)) = "cells"

\* the final concentration the request asks for
TargetConcentration ==
    IF CellsMode
    THEN (IF /\ CellsToSeed.t = "float" /\ ~NotPositive(CellsToSeed)
             /\ VolumePerSeed.t = "float" /\ ~NotPositive(VolumePerSeed)
          THEN PyFloat(FDiv(CellsToSeed.f, VolumePerSeed.f)) ELSE None)
    ELSE parse_numeric(Get(request, "final_concentration", None))

\* a dilution request that passes every positivity check
DilutionChecked ==
    /\ Served /\ IsDilution /\ InputModeIsText
    /\ Positive(StartConcentration) /\ Positive(TotalVolume) /\ Positive(TargetConcentration)

Field(name) == response.body[name]

HasField(name) == name \in DOMAIN response.body

\* the three inputs of the dilution are ordinary numbers
FiniteInputs ==
    Finite(StartConcentration) /\ Finite(TotalVolume) /\ Finite(TargetConcentration)

\* C1: a dilution request that passes the positivity checks is rejected
\* exactly when the target concentration is higher than the starting one; a
\* target equal to the start is accepted, with no media to add.  Stated for
\* ordinary (finite) numbers.
C1_RejectedExactlyWhenTargetHigher ==
    (DilutionChecked /\ FiniteInputs) =>
        /\ Rejected <=> FGt(TargetConcentration.f, StartConcentration.f)
        /\ FEq(TargetConcentration.f, StartConcentration.f) =>
              Accepted /\ IsZero(Field("media_volume_ml").f)

Hundred == IntToFloat(100)

\* the inputs of the request being served, as the planner reads them
Percent == ToFloat(Get(request, "target_confluency", PyInt(0)))

Hours == ToFloat(Get(request, "target_hours", PyInt(0)))

Override == parse_numeric(Get(request, "doubling_time_override", None))

VesselId == ToInt(Get(request, "vessel_id", None))

\* the average doubling time of the cell line of the request's culture
CellLineAverage ==
    LET cell_line == LookupCellLine(Get(request, "culture_id", None))
    IN  IF cell_line.t = "row" THEN average_doubling_time(cell_line.row) ELSE None

\* the percent brought into [0, 100]; what is not a number counts as 0
Clamped ==
    IF IsNaN(Percent.f) \/ FLt(Percent.f, Zero(0)) THEN Zero(0)
    ELSE IF FGt(Percent.f, Hundred) THEN Hundred
    ELSE FAbs(Percent.f)

RejectedWith(message) ==
    Rejected /\ response.status = 400 /\ response.body = [error |-> message]

\* a confluency request that gets as far as the confluency check
ConfluencyChecked ==
    /\ Served /\ ~IsDilution
    /\ Positive(StartConcentration)
    /\ ~IsRaise(Override)
    /\ VesselId.t = "int" /\ VesselId.n \in DOMAIN vessels
    /\ Percent.t = "float"

\* a confluency request that gets as far as the doubling time check
DoublingTimeChecked ==
    /\ ConfluencyChecked
    /\ FGt(FDiv(Clamped, Hundred), Zero(0))
    /\ Hours.t = "float" /\ ~FLe(Hours.f, Zero(0))
    /\ ~IsRaise(VesselCount(Get(request, "vessels_used", PyInt(1))))
    /\ ~IsRaise(LookupCellLine(Get(request, "culture_id", None)))

TooLowConfluency == RejectedWith("Target confluency must be greater than zero.")

NoDoublingTime == RejectedWith("A valid doubling time is required.")

\* the planner's example: capacity 1e7, 80 %, doubling 24 h, horizon 48 h,
\* concentration 1e6, one vessel
PlannerExample ==
    /\ Accepted /\ ~IsDilution
    /\ vessels[Field("vessel_id").n].cells_at_100_confluency = Num("1e7").f
    /\ Percent = Num("80") /\ Hours = Num("48")
    /\ Field("doubling_time_used") = Num("24")
    /\ Field("cell_concentration") = Num("1e6")
    /\ Field("vessels_used") = PyInt(1)

\* C3: for every accepted confluency request final_cells is capacity *
\* fraction, growth_cycles is hours / doubling time, required_cells is
\* final_cells / 2^growth_cycles, volume_needed is required_cells /
\* concentration, and each total is the per-vessel value times the vessel
\* count; the example gives 8e6 cells, 2 cycles, 2e6 cells and 2.0 mL.
C3_SeedingArithmetic ==
    (Accepted /\ ~IsDilution) =>
        LET count == IntToFloat(Field("vessels_used").n)
        IN  /\ Field("hours") = Hours
            /\ Field("cell_concentration") = StartConcentration
            /\ Field("final_cells").f
                  = FMul(vessels[Field("vessel_id").n].cells_at_100_confluency,
                         FDiv(Clamped, Hundred))
            /\ Field("growth_cycles").f = FDiv(Hours.f, Field("doubling_time_used").f)
            /\ Field("required_cells").f
                  = FDiv(Field("final_cells").f, Pow2(Field("growth_cycles").f))
            /\ Field("volume_needed_ml").f
                  = FDiv(Field("required_cells").f, StartConcentration.f)
            /\ Field("final_cells_total").f = FMul(Field("final_cells").f, count)
            /\ Field("required_cells_total").f = FMul(Field("required_cells").f, count)
            /\ Field("volume_needed_total_ml").f = FMul(Field("volume_needed_ml").f, count)
            /\ PlannerExample =>
                  /\ Field("final_cells") = Num("8e6")
                  /\ Field("growth_cycles") = Num("2")
                  /\ Field("required_cells") = Num("2e6")
                  /\ Field("volume_needed_ml") = Num("2")

\* the example was served
C3_Witness == PlannerExample /\ Field("required_cells_total") = Num("2e6")

Resolved == IF IsNone(Override) THEN CellLineAverage ELSE Override

\* C5 as stated: the request is rejected for lack of a doubling time only if
\* neither the override nor the cell line's average is a positive number.
C5_RejectedOnlyIfNeitherPositive ==
    DoublingTimeChecked =>
        (NoDoublingTime => ~Positive(Override) /\ ~Positive(CellLineAverage))

\* C5: the doubling time used is the override whenever one is given, and the
\* cell line's average only when none is given; the request is rejected for
\* lack of a doubling time exactly when that value is absent or <= 0, so an
\* override that is not positive is rejected whatever the cell line says.
C5_OverrideFirst ==
    DoublingTimeChecked =>
        /\ NoDoublingTime <=> (IsNone(Resolved) \/ FLe(Resolved.f, Zero(0)))
        /\ Accepted => Field("doubling_time_used") = Resolved

\* the cell line's average was used, and an override beat a cell line
C5_Witness ==
    /\ DoublingTimeChecked /\ Accepted
    /\ ~IsNone(CellLineAverage)
    /\ Field("doubling_time_used") = Num("12")

\* ------------------------------------------------------------------------
\* Properties of the calculator as a whole
\* ------------------------------------------------------------------------

\* C6: every response is a result without an error field, or an error object
\* with a single message and nothing else, with status 400, or 404 for a
\* vessel that does not exist.
C6_ResultOrSingleError ==
    Served =>
        \/ response.status = 200 /\ ~HasField("error")
        \/ /\ response.status \in {400, 404}
           /\ DOMAIN response.body = {"error"}
           /\ response.status = 404 <=> response.body.error = "Vessel not found."

PortionsExample ==
    /\ CellsMode
    /\ CellsToSeed = Num("1e5") /\ VolumePerSeed = Num("0.5") /\ TotalVolume = Num("10")

HasCellsWord ==
    EndsWith(Lower(Strip(arg.text)), "cells") \/ EndsWith(Lower(Strip(arg.text)), "cell")

\* the text without that word
NumberText ==
    LET s == Strip(arg.text)
    IN  IF EndsWith(Lower(s), "cells") THEN Strip(DropLast(s, 5))
        ELSE IF EndsWith(Lower(s), "cell") THEN Strip(DropLast(s, 4))
        ELSE s

\* the number the text writes
ParsedNumber == parse_numeric(PyStr(NumberText))

Million == IntToFloat(1000000)

\* C9: parse_millions multiplies the number by 1,000,000 exactly when it is
\* below 1,000,000 and the text has no M suffix, no scientific notation and
\* no "cells" word; every other text that parses gives the number unchanged,
\* and a text that does not parse gives None.
C9_MillionsUnlessMarked ==
    (Returned /\ arg.t = "str") =>
        IF IsNone(ParsedNumber) THEN result = None
        ELSE IF /\ FLt(ParsedNumber.f, Million)
                /\ ~EndsWith(Upper(NumberText), "M")
                /\ FirstPos(Upper(NumberText), {"E"}) = 0
                /\ ~HasCellsWord
             THEN result = PyFloat(FMul(ParsedNumber.f, Million))
        ELSE result = ParsedNumber

\* C10 as stated: parse_millions("500000") returns 500,000,000.0.
C10_FiveHundredMillion ==
    (Returned /\ arg = PyStr("500000")) => result = Num("500000000")

\* C10: parse_millions("500000") returns 500,000,000,000.0, the number
\* times 1,000,000.
C10_FiveHundredBillion ==
    (Returned /\ arg = PyStr("500000")) => result = Num("500000000000")

\* parse_millions("500000") has returned
C10_Witness == Returned /\ arg = PyStr("500000") /\ result.t = "float"

\* ------------------------------------------------------------------------
\* Properties of parse_numeric
\* ------------------------------------------------------------------------

ParsedBy(fn) == Returned /\ called.fn = fn

\* C11: for None, a boolean, an int, a float or a text, parse_numeric returns
\* a float or None and never raises; "", "abc" and the booleans give None.
C11_NeverRaises ==
    ParsedBy("parse_numeric") =>
        /\ result.t \in {"float", "None"}
        /\ (arg.t = "bool" \/ arg \in {PyStr(""), PyStr("abc")}) => result = None

\* C12: what parse_numeric returns is None or a finite float that is not
\* negative; NaN, as a number or as a text, gives None.
C12_FiniteNotNegative ==
    (ParsedBy("parse_numeric") /\ ~IsRaise(result)) =>
        \/ result = None
        \/ /\ result.t = "float"
           /\ result.f.k = "fin"
           /\ ~FLt(result.f, Zero(0))

\* ------------------------------------------------------------------------
\* Properties of the display formatters
\* ------------------------------------------------------------------------

\* a text writes a number with exactly d decimals (none and no point for 0)
HasDecimals(s, d) ==
    /\ Len(s) >= (IF d = 0 THEN 1 ELSE d + 2)
    /\ \A i \in 1..Len(s) :
          IF d > 0 /\ i = Len(s) - d THEN Char(s, i) = "."
          ELSE IsDigit(Char(s, i)) \/ (i = 1 /\ Char(s, i) = "-")

\* a text writes x to within half a unit of its d-th decimal (d is 0 or 2)
Writes(s, x, d) ==
    /\ ~IsRaise(StrToFloat(s))
    /\ FLe(FAbs(FSub(StrToFloat(s).f, x)),
           IF d = 0 THEN Num("0.5").f ELSE Num("0.005000001").f)

\* a text is number, blank, unit, the number x with d decimals
Shows(s, x, d, unit) ==
    /\ EndsWith(s, unit)
    /\ HasDecimals(DropLast(s, Len(unit)), d)
    /\ Writes(DropLast(s, Len(unit)), x, d)

\* the micro sign, by code point
Micro == "\\u00b5"

\* what C13 says of format_volume, the microliter unit being written `unit`
VolumeShown(unit) ==
    IF arg = None THEN result = None
    ELSE /\ result.t = "str"
         /\ IsZero(arg.f) => result.text = "0.00 mL"
         /\ FLt(arg.f, Zero(0)) =>
               result.text = "-" \o format_volume(PyFloat(FAbs(arg.f))).text
         /\ (FGt(arg.f, Zero(0)) /\ FLt(arg.f, Num("0.01").f)) =>
               Shows(result.text, FMul(arg.f, Thousand), 2, " " \o unit)
         /\ ~(IsZero(arg.f) \/ FLt(arg.f, Num("0.01").f)) =>
               Shows(result.text, arg.f, 2, " mL")

\* format_volume has returned for None or a finite volume (NaN and the
\* infinities come out as "nan mL", "inf mL", "-inf mL")
VolumeFormatted == ParsedBy("format_volume") /\ (arg = None \/ arg.f.k = "fin")

\* C13 as stated: format_volume gives null for an absent value, "0.00 mL"
\* for zero, "-" and the text of the absolute value for a negative one,
\* microliters with two decimals and the micro sign before "L" below 0.01 mL
\* (format_volume(0.005) is "5.00" and that unit), and milliliters with two
\* decimals otherwise.
C13_VolumeWithMicroSign ==
    VolumeFormatted =>
        /\ VolumeShown(Micro \o "L")
        /\ arg = Num("0.005") => result = PyStr("5.00 " \o Micro \o "L")

\* C13: the same with the microliter unit written "uL"; format_volume(0.005)
\* is "5.00 uL".
C13_VolumeWithAsciiUnit ==
    VolumeFormatted =>
        /\ VolumeShown("uL")
        /\ arg = Num("0.005") => result = PyStr("5.00 uL")

\* format_volume(0.005) has returned its microliters
C13_Witness ==
    ParsedBy("format_volume") /\ arg = Num("0.005") /\ result = PyStr("5.00 uL")

\* the size of the unit a magnitude reaches: 10^9, 10^6, 10^3 or 1
UnitReached(a) ==
    IF FGe(a, Num("1e9").f) THEN Num("1e9").f
    ELSE IF FGe(a, Num("1e6").f) THEN Num("1e6").f
    ELSE IF FGe(a, Num("1e3").f) THEN Num("1e3").f
    ELSE Num("1").f

UnitSuffix(a) ==
    IF FGe(a, Num("1e9").f) THEN " B"
    ELSE IF FGe(a, Num("1e6").f) THEN " M"
    ELSE IF FGe(a, Num("1e3").f) THEN " K"
    ELSE ""

\* what C14 says of format_cells
CellsShown ==
    IF arg = None THEN result = PyStr(EmDash)
    ELSE /\ result.t = "str"
         /\ FGe(FAbs(arg.f), Num("1e3").f) =>
               Shows(result.text, FDiv(arg.f, UnitReached(FAbs(arg.f))), 2,
                     UnitSuffix(FAbs(arg.f)))
         /\ FLt(FAbs(arg.f), Num("1e3").f) => Shows(result.text, arg.f, 0, "")
         /\ arg = Num("1500000") => result = PyStr("1.50 M")
         /\ arg = Num("999") => result = PyStr("999")

\* C14: format_cells writes an absent value as a dash; otherwise the value
\* over the largest of 1e9, 1e6, 1e3 its magnitude reaches, with two decimals
\* and B, M or K; a magnitude below 1000 with no decimals and no suffix.
\* Checked for None and every finite number (NaN and the infinities come out
\* as "nan", "inf B", "-inf B").
C14_CellsScaled ==
    (ParsedBy("format_cells") /\ (arg = None \/ arg.f.k = "fin")) => CellsShown

\* format_cells(1500000) has returned
C14_Witness ==
    ParsedBy("format_cells") /\ arg = Num("1500000") /\ result = PyStr("1.50 M")

\* format_significant has returned for None or a finite value (math.floor
\* raises for NaN and the infinities)
SignificantFormatted ==
    ParsedBy("format_significant") /\ (arg = None \/ arg.f.k = "fin")

\* the result text writes the value rounded at `scale` decimal places: it
\* reads back as round(value, scale), which is within half a unit of that
\* place of the value
RoundedAt(scale) ==
    /\ result.t = "str"
    /\ StrToFloat(result.text) = PyFloat(PyRound(arg.f, scale))
    /\ FLe(FAbs(FSub(PyRound(arg.f, scale), arg.f)), DecToFloat(0, <<17233, 1>>, -scale - 5))

\* what C15 says of format_significant, the rule about the decimal point
\* left open: Point(scale) is that rule for the scale digits - 1 - order
SignificantShown(Point(_)) ==
    IF arg = None THEN result = None
    ELSE IF IsZero(arg.f) THEN result = PyStr("0")
    ELSE \E order \in OrdersOf(arg) :
            /\ RoundedAt(called.digits - 1 - order)
            /\ Point(called.digits - 1 - order)

\* C15 as stated: format_significant writes the value rounded to `digits`
\* significant figures, the scale found with floor(log10(|value|)); a
\* rounded value that is whole is written without a decimal point; zero is
\* "0" and an absent value null.
C15_WholeWithoutPoint ==
    SignificantFormatted =>
        LET NoPointIfWhole(scale) ==
                IsIntegral(PyRound(arg.f, scale)) => FirstPos(result.text, {"."}) = 0
        IN  SignificantShown(NoPointIfWhole)

\* C15: format_significant writes round(value, scale) for scale = digits - 1
\* - floor(log10(|value|)) with exactly `scale` decimals when scale > 0 and
\* without a decimal point when scale <= 0, so a whole result keeps its
\* decimals when scale > 0 (format_significant(5, 2) is "5.0"); zero is "0"
\* and an absent value null.
C15_ScaleDecimals ==
    SignificantFormatted =>
        LET ScaleDecimals(scale) == HasDecimals(result.text, Max(scale, 0))
        IN  /\ SignificantShown(ScaleDecimals)
            /\ (arg = Num("5") /\ called.digits = 2) => result = PyStr("5.0")

\* format_significant(5, 2) has returned
C15_Witness ==
    /\ ParsedBy("format_significant") /\ arg = Num("5") /\ called.digits = 2
    /\ result = PyStr("5.0")

\* ------------------------------------------------------------------------
\* Properties of cellSplitter's pages
\* ------------------------------------------------------------------------

\* the id of the user who created the culture of this name, 0 for nobody
CreatorOf(name) == NameRank(name) - 1

\* a culture of another user than the one logged in in the browser of the
\* request
OfAnother(name) == CreatorOf(name) \notin {0, session[request.browser]}

\* the request just answered was one of this route
Visited(route) == "route" \in DOMAIN request /\ request.route = route

\* C16: a culture created by one logged-in user is never visible to another:
\* the dashboard of a logged-in user lists no culture another user created,
\* and GET /culture/<id> of such a culture does not show it.
C16_CulturesIsolated ==
    /\ (Visited("/") /\ response.status = 200) =>
          \A i \in 1..Len(response.body) : ~OfAnother(response.body[i])
    /\ (/\ Visited("/culture/<id>")
        /\ session[request.browser] # 0
        /\ request.id \in DOMAIN cultures
        /\ OfAnother(cultures[request.id].name)) =>
          response.status # 200

\* ------------------------------------------------------------------------
\* Properties of the journal application
\* ------------------------------------------------------------------------

\* the request answered by this step is a GET, PUT or DELETE of
\* /journals/<id> by a logged-in user for an entry of somebody else
ForeignEntryRequested ==
    /\ "method" \in DOMAIN request'
    /\ request'.route = "/journals/<id>"
    /\ request'.method \in {"GET", "PUT", "DELETE"}
    /\ login[request'.browser] # 0
    /\ request'.id \in DOMAIN entries
    /\ entries[request'.id].user_id # login[request'.browser]

\* C17: a GET, PUT or DELETE of /journals/<id> by a logged-in user who does
\* not own entry <id> is answered 403 and leaves that entry as it was,
\* neither modified nor deleted, whatever happened before.
C17_ForeignEntryForbidden ==
    [][ForeignEntryRequested =>
          /\ response'.status = 403
          /\ request'.id \in DOMAIN entries'
          /\ entries'[request'.id] = entries[request'.id]]_vars

\* a logged-in user was refused the update of an entry of somebody else
C17_Witness ==
    /\ "method" \in DOMAIN request
    /\ request.route = "/journals/<id>"
    /\ request.method = "PUT"
    /\ login[request.browser] # 0
    /\ request.id \in DOMAIN entries
    /\ entries[request.id].user_id # login[request.browser]
    /\ response.status = 403

\* the request just answered was GET /journals/ of a logged-in user
Listed ==
    /\ "method" \in DOMAIN request
    /\ request.route = "/journals/"
    /\ request.method = "GET"
    /\ login[request.browser] # 0

\* the entries the user of the request owns now
Owned == {id \in DOMAIN entries : entries[id].user_id = login[request.browser]}

\* C18: GET /journals/ of a logged-in user u returns exactly the entries u
\* owns now: each of them once, as it is now, and none of anyone else,
\* whatever was created, updated and deleted before.
C18_ListsExactlyOwn ==
    Listed =>
       /\ response.status = 200
       /\ {response.body[i] : i \in DOMAIN response.body}
             = {[id |-> id, title |-> entries[id].title,
                 content |-> entries[id].content] : id \in Owned}
       /\ Len(response.body) = Cardinality(Owned)

\* a user was shown their one entry while somebody else has one too
C18_Witness ==
    /\ Listed
    /\ Len(response.body) = 1
    /\ \E id \in DOMAIN entries : entries[id].user_id # login[request.browser]

\* the request answered by this step is a POST of /auth/reset/<token>
ResetPosted ==
    /\ "token" \in DOMAIN request'
    /\ request'.method = "POST"

\* the passwords of all accounts
Passwords == [id \in DOMAIN accounts |-> accounts[id].password_hash]

\* C19: a POST of /auth/reset/<token> with a token older than
\* PASSWORD_RESET_TOKEN_MAX_AGE, or with a signature that is not the
\* serializer's, is answered 400 and changes nobody's password.
C19_BadTokenRefused ==
    [][(/\ ResetPosted
        /\ \/ ~request'.token.signed
           \/ now - request'.token.issued > PASSWORD_RESET_TOKEN_MAX_AGE) =>
          /\ response'.status = 400
          /\ Passwords' = Passwords]_vars

\* a mailed token was refused, with a new password, after its maximum age
C19_Witness ==
    /\ "token" \in DOMAIN request
    /\ request.method = "POST"
    /\ request.token \in outbox
    /\ request.password # ""
    /\ now - request.token.issued > PASSWORD_RESET_TOKEN_MAX_AGE
    /\ response.status = 400

\* C20: a POST of /auth/reset/<token> with a token generated for user u that
\* is not older than PASSWORD_RESET_TOKEN_MAX_AGE, and with a password p that
\* is not empty, is answered 200; afterwards the password of u verifies
\* against p and the password of every other user is what it was.
C20_GoodTokenResets ==
    [][(/\ ResetPosted
        /\ request'.token \in outbox
        /\ now - request'.token.issued <= PASSWORD_RESET_TOKEN_MAX_AGE
        /\ request'.password # "") =>
          /\ response'.status = 200
          /\ DOMAIN accounts' = DOMAIN accounts
          /\ accounts'[request'.token.user_id].password_hash = request'.password
          /\ \A id \in DOMAIN accounts :
                id # request'.token.user_id =>
                   accounts'[id].password_hash = accounts[id].password_hash]_vars

\* one of two users has reset their password to a new one with a mailed
\* token
C20_Witness ==
    /\ "token" \in DOMAIN request
    /\ request.method = "POST"
    /\ request.token \in outbox
    /\ response.status = 200
    /\ Len(accounts) = 2
    /\ accounts[request.token.user_id].password_hash = request.password
    /\ \E id \in DOMAIN accounts : accounts[id].password_hash # request.password

\* the request answered by this step is a POST of /auth/reset-with-security
AnswerPosted == "json" \in DOMAIN request' /\ request'.route = "/auth/reset-with-security"

\* the account registered with the email of that request, 0 for none
AccountAsked ==
    IF \E id \in DOMAIN accounts : accounts[id].email = Normalised[request'.json.email]
    THEN CHOOSE id \in DOMAIN accounts : accounts[id].email = Normalised[request'.json.email]
    ELSE 0

\* the answer of that request is, trimmed and in lower case, the stored
\* answer of that account
AnswerRight ==
    /\ AccountAsked # 0
    /\ accounts[AccountAsked].security_answer_hash = NormalisedAnswer[request'.json.security_answer]

\* this step sets the password of that account to the one of the request,
\* answers 200 and changes no other password
PasswordReplaced ==
    /\ response'.status = 200
    /\ DOMAIN accounts' = DOMAIN accounts
    /\ accounts'[AccountAsked].password_hash = request'.json.password
    /\ \A id \in DOMAIN accounts :
          id # AccountAsked => accounts'[id].password_hash = accounts[id].password_hash

\* this step answers with this status and changes no password
RefusedWith(status) == response'.status = status /\ Passwords' = Passwords

\* the request of this step leaves none of email, answer and password empty
AllSupplied ==
    /\ Normalised[request'.json.email] # ""
    /\ request'.json.security_answer # ""
    /\ request'.json.password # ""

\* C21 as stated: POST /auth/reset-with-security changes the password of the
\* account with the given email, with response 200, exactly when the answer
\* equals the stored one after trimming and lower-casing; a wrong answer or
\* an unknown email is answered 403 and changes no password.
C21_ChangedExactlyOnAnswer ==
    [][AnswerPosted => IF AnswerRight THEN PasswordReplaced ELSE RefusedWith(403)]_vars

\* C21: the same for a request that leaves none of email, answer and
\* password empty; a request that leaves one of them empty is answered 400
\* and changes no password, whatever the answer.
C21_ChangedOnAnswerIfSupplied ==
    [][AnswerPosted =>
          IF ~AllSupplied THEN RefusedWith(400)
          ELSE IF AnswerRight THEN PasswordReplaced
          ELSE RefusedWith(403)]_vars

\* an answer typed in capitals with a blank has replaced a password
C21_Witness ==
    /\ "json" \in DOMAIN request
    /\ request.route = "/auth/reset-with-security"
    /\ response.status = 200
    /\ request.json.security_answer = "BLUE "
    /\ \E id \in DOMAIN accounts :
          /\ accounts[id].email = request.json.email
          /\ accounts[id].password_hash = request.json.password
          /\ accounts[id].security_answer_hash = "blue"

\* the request answered by this step is a POST of /auth/login
LoginPosted == "json" \in DOMAIN request' /\ request'.route = "/auth/login"

\* the email of that request, trimmed and in lower case
EmailPosted == Normalised[request'.json.email]

\* that request names an account and its password
Admitted ==
    \E id \in DOMAIN accounts :
        /\ accounts[id].email = EmailPosted
        /\ accounts[id].password_hash = request'.json.password

\* what that attempt is counted under when it fails: the email, or the
\* address of the client when there is no email
CountedUnder == IF EmailPosted # "" THEN EmailPosted ELSE remote_addr

\* get_attempts(key) after this step is `count`, and as before for every
\* other key
OnlyCountOf(key, count) ==
    /\ get_attempts(failed_login_tracker', key) = count
    /\ \A other \in (DOMAIN failed_login_tracker \cup DOMAIN failed_login_tracker') \ {key} :
          get_attempts(failed_login_tracker', other) = get_attempts(failed_login_tracker, other)

\* C22: get_attempts(email) is the number of failed logins with that email
\* since the last successful one: the tracker starts empty, and a
\* failed attempt is answered 401 and adds exactly 1 to the count of its
\* email, a successful login sets the count of its email to 0, and nothing
\* else changes a count.  An attempt that gives no email is counted under the
\* address of the client.
C22_AttemptsCounted ==
    [][IF ~LoginPosted THEN failed_login_tracker' = failed_login_tracker
       ELSE IF Admitted
       THEN response'.status = 200 /\ OnlyCountOf(EmailPosted, 0)
       ELSE /\ response'.status = 401
            /\ OnlyCountOf(CountedUnder,
                           get_attempts(failed_login_tracker, CountedUnder) + 1)]_vars

\* a second failed attempt for an email, typed with capitals and blanks, has
\* been counted
C22_Witness ==
    /\ "json" \in DOMAIN request
    /\ request.route = "/auth/login"
    /\ request.json.email = " User1@Test.com "
    /\ response.status = 401
    /\ get_attempts(failed_login_tracker, "user1@test.com") = 2

\* this request is a POST of /auth/request-reset that gives an email
ResetRequested(req) ==
    /\ "json" \in DOMAIN req
    /\ req.route = "/auth/request-reset"
    /\ Normalised[req.json.email] # ""

\* C23: the response of POST /auth/request-reset, status and body, does not
\* depend on whether the email belongs to an account: of two such requests
\* answered one after the other, whatever their emails, the second gets the
\* response the first got.
C23_SameResponseForAnyEmail ==
    [][(ResetRequested(request) /\ ResetRequested(request')) => response' = response]_vars

\* the token of that request was mailed, and since then it has reset a
\* password, or its user has logged in or changed the password another way
TokenSeen == request'.token \in DOMAIN since /\ since[request'.token] # {}

\* C29: a reset token is not consumed. A POST of /auth/reset/<token> with a
\* mailed token that has already reset the password, or whose user has since
\* logged in or changed the password by another route, is answered 200 while
\* the token is not older than PASSWORD_RESET_TOKEN_MAX_AGE and the password
\* posted is not empty, and the password posted replaces the old one.
C29_TokenNotConsumed ==
    [][(/\ ResetPosted
        /\ TokenSeen
        /\ now - request'.token.issued <= PASSWORD_RESET_TOKEN_MAX_AGE
        /\ request'.password # "") =>
          /\ response'.status = 200
          /\ accounts'[request'.token.user_id].password_hash = request'.password
          /\ outbox' = outbox]_vars

\* a token has reset the password of its user for the second time, to a
\* password other than the one before, after the user logged in and after the
\* password was changed with the security answer
C29_Witness ==
    /\ "token" \in DOMAIN request
    /\ request.method = "POST"
    /\ response.status = 200
    /\ request.token \in DOMAIN since
    /\ since[request.token] = {"used", "used again", "changed", "login"}
    /\ accounts[request.token.user_id].password_hash = "password1"
    /\ request.password = "password1"

\* the request answered by this step is one of an endpoint under
\* login_required: /journals/, /journals/<id> or /auth/logout
Protected ==
    /\ "browser" \in DOMAIN request'
    /\ request'.route \in {"/journals/", "/journals/<id>", "/auth/logout"}

\* this step logs the session of that browser in, with a right password
LogsIn(b) ==
    /\ LoginPosted
    /\ request'.browser = b
    /\ Admitted
    /\ login'[b] # 0
    /\ accounts[login'[b]].email = EmailPosted

\* this step logs the session of that browser out
LogsOut(b) ==
    /\ Protected
    /\ request'.route = "/auth/logout"
    /\ request'.browser = b
    /\ login'[b] = 0

\* C30: a session of the journal is authenticated exactly from a successful
\* login until the next logout. Every endpoint under login_required answers
\* 401 exactly to a session with no logged-in user; a login with a wrong
\* password leaves every session as it was, one with the right password
\* authenticates its session; a logout ends the authentication of its
\* session; and nothing else changes whether a session is authenticated.
C30_AuthenticatedUntilLogout ==
    [][/\ Protected => (response'.status = 401 <=> login[request'.browser] = 0)
       /\ (LoginPosted /\ ~Admitted) => login' = login
       /\ (LoginPosted /\ Admitted) => LogsIn(request'.browser)
       /\ (Protected /\ request'.route = "/auth/logout") => LogsOut(request'.browser)
       /\ \A b \in Browsers : login'[b] # login[b] => (LogsIn(b) \/ LogsOut(b))]_vars

\* GET /journals/ was answered 401 to a session after everybody has logged
\* out: an entry exists, so its author was logged in, and a login with a wrong
\* password has been counted
C30_Witness ==
    /\ Visited("/journals/")
    /\ request.method = "GET"
    /\ response.status = 401
    /\ \A b \in Browsers : login[b] = 0
    /\ DOMAIN entries # {}
    /\ failed_login_tracker # <<>>

\* the request just answered was an update_myco_status that set the status
\* of the latest passage of its culture
MycoJustSet ==
    /\ Visited("/culture/<id>/myco")
    /\ response = Flashed("index", "success")

\* this step creates no passage for the culture of that request
NoPassageLogged ==
    PassagesOf(passages', request.id) \subseteq PassagesOf(passages, request.id)

\* C24: once update_myco_status has set the Myco status of the latest
\* passage of a culture, the status is locked until the next passage is
\* logged: a request that follows the setting and creates no passage for the
\* culture leaves the Myco status of that passage as it is, and is rejected if
\* it is another update_myco_status for the culture.
C24_MycoLockedUntilNextPassage ==
    [][(MycoJustSet /\ NoPassageLogged) =>
          /\ latest_passage(passages, request.id) \in DOMAIN passages' =>
                passages'[latest_passage(passages, request.id)].myco_status =
                    passages[latest_passage(passages, request.id)].myco_status
          /\ ("route" \in DOMAIN request' /\ request'.route = "/culture/<id>/myco"
                  /\ request'.id = request.id) =>
                response' = Flashed("index", "error")]_vars

\* the request answered by this step is one of this route
Asked(route) == "route" \in DOMAIN request' /\ request'.route = route

\* the culture with this id exists and is ended
Ended(culture_id) ==
    culture_id \in DOMAIN cultures /\ cultures[culture_id].ended_on # None

\* an entry of the batch posted by this step names an ended culture
BatchNamesEnded ==
    \E i \in DOMAIN request'.entries :
        /\ request'.entries[i].culture_id.t = "int"
        /\ Ended(request'.entries[i].culture_id.n)

\* C25: no passage is ever created for a culture while it is ended. A
\* passage created by a step belongs to a culture that was active before the
\* step or that the step itself creates; add_passage for an ended culture and
\* a batch of /api/bulk-passages that names one are rejected (the batch with
\* 400, or with 404 for an unknown culture before it) and create nothing; and
\* only reactivate_culture makes an ended culture active again.
C25_NoPassageWhileEnded ==
    [][/\ \A id \in DOMAIN passages' \ DOMAIN passages :
             ~Ended(passages'[id].culture_id)
       /\ (Asked("/culture/<id>/add_passage") /\ Ended(request'.id)) =>
             response' = Flashed("view_culture", "error") /\ passages' = passages
       /\ (Asked("/api/bulk-passages") /\ BatchNamesEnded) =>
             response'.status \in {400, 404} /\ passages' = passages
       /\ \A id \in DOMAIN cultures :
             (Ended(id) /\ id \in DOMAIN cultures' /\ cultures'[id].ended_on = None) =>
                Asked("/culture/<id>/reactivate")]_vars

\* a batch of two entries was refused whose first entry names an active
\* culture with one passage and whose second names an ended one
C25_Witness ==
    /\ Visited("/api/bulk-passages")
    /\ Len(request.entries) = 2
    /\ request.entries[1].culture_id = PyInt(1)
    /\ request.entries[2].culture_id = PyInt(2)
    /\ DOMAIN cultures = {1, 2}
    /\ cultures[1].ended_on = None
    /\ cultures[2].ended_on # None
    /\ response.status = 400
    /\ Cardinality(PassagesOf(passages, 1)) = 1

\* C26: a culture can be permanently deleted only while it is ended. A
\* culture leaves the table only by delete_culture on that culture while it
\* is ended; delete_culture on an active culture leaves the cultures and the
\* passages as they are; delete_culture on an ended culture removes it
\* together with exactly its passages, so that every passage left belongs to
\* a culture that exists.
C26_DeletedOnlyWhenEnded ==
    [][/\ \A id \in DOMAIN cultures \ DOMAIN cultures' :
             Ended(id) /\ Asked("/culture/<id>/delete") /\ request'.id = id
       /\ (Asked("/culture/<id>/delete") /\ request'.id \in DOMAIN cultures
               /\ ~Ended(request'.id)) =>
             cultures' = cultures /\ passages' = passages
       /\ (Asked("/culture/<id>/delete") /\ Ended(request'.id)) =>
             /\ DOMAIN cultures' = DOMAIN cultures \ {request'.id}
             /\ \A id \in DOMAIN cultures' : cultures'[id] = cultures[id]
             /\ DOMAIN passages' =
                   {id \in DOMAIN passages : passages[id].culture_id # request'.id}
             /\ \A id \in DOMAIN passages' : passages'[id] = passages[id]
       /\ \A id \in DOMAIN passages' : passages'[id].culture_id \in DOMAIN cultures']_vars

\* the first of two cultures was deleted, and the second is left with its
\* passages
C26_Witness ==
    /\ Visited("/culture/<id>/delete")
    /\ request.id = 1
    /\ response = Flashed("index", "success")
    /\ DOMAIN cultures = {2}
    /\ passages # <<>>
    /\ \A id \in DOMAIN passages : passages[id].culture_id = 2

\* the passage numbers of a culture
Numbers(rows, culture_id) ==
    {rows[id].passage_number : id \in PassagesOf(rows, culture_id)}

\* one more than the greatest passage number of a culture, 1 without passages
MaxPlusOne(culture_id) ==
    IF Numbers(passages, culture_id) = {} THEN 1
    ELSE 1 + CHOOSE m \in Numbers(passages, culture_id) :
                 \A n \in Numbers(passages, culture_id) : n <= m

\* the passages this step logs for a culture
Logged(culture_id) == PassagesOf(passages', culture_id) \ DOMAIN passages

\* C28: whatever create_culture, clone_culture, add_passage,
\* /api/bulk-passages and delete_passage have done one after the other, the
\* passage numbers within one culture are pairwise distinct; a passage logged
\* by add_passage gets the greatest passage number of its culture plus 1, or
\* 1 for a culture without passages; and the passages a batch of
\* /api/bulk-passages logs for one culture get the numbers that follow the
\* greatest one, one by one in the order of the entries.
C28_PassageNumbers ==
    [][/\ \A a, b \in DOMAIN passages' :
             (a # b /\ passages'[a].culture_id = passages'[b].culture_id) =>
                passages'[a].passage_number # passages'[b].passage_number
       /\ Asked("/culture/<id>/add_passage") =>
             \A id \in Logged(request'.id) :
                passages'[id].passage_number = MaxPlusOne(request'.id)
       /\ Asked("/api/bulk-passages") =>
             \A culture_id \in DOMAIN cultures :
                \A id \in Logged(culture_id) :
                   passages'[id].passage_number =
                      MaxPlusOne(culture_id)
                         + Cardinality({other \in Logged(culture_id) : other < id})]_vars

\* a batch of two entries for one culture was accepted: the culture began at
\* passage 2 and now has the passages 2, 3 and 4
C28_Witness ==
    /\ Visited("/api/bulk-passages")
    /\ response.status = 200
    /\ Len(request.entries) = 2
    /\ request.entries[1].culture_id = request.entries[2].culture_id
    /\ Numbers(passages, request.entries[1].culture_id.n) = {2, 3, 4}

\* an entry of a batch names no culture that can be updated: its id is no
\* integer, or the culture is unknown or ended
NoSuchActive(entry) ==
    \/ entry.culture_id.t # "int"
    \/ entry.culture_id.n \notin DOMAIN cultures
    \/ Ended(entry.culture_id.n)

\* an entry of the batch posted to /api/bulk-passages by this step fails
PassageEntryFails ==
    \E i \in DOMAIN request'.entries :
        \/ NoSuchActive(request'.entries[i])
        \/ request'.entries[i].measured_viability_percent \notin
              {None} \cup {PyInt(n) : n \in 0..100}

\* an entry of the batch posted to /api/bulk-harvest by this step fails
HarvestEntryFails ==
    \E i \in DOMAIN request'.entries :
        \/ NoSuchActive(request'.entries[i])
        \/ request'.entries[i].measured_cell_concentration \in {None, PyInt(0)}
        \/ request'.entries[i].measured_slurry_volume_ml \in {None, PyInt(0)}

=============================================================================
